---- MODULE Spec2Model ----
(***************************************************************************)
(* A model of tasm-lib's snippet composition infrastructure:               *)
(*   - Library (tasm-lib/src/library.rs): the set of imported snippets and *)
(*     the static memory allocator;                                        *)
(*   - the TasmObject derive macro (derive_tasm_object/src/lib.rs): the    *)
(*     generated field accessors, run on a small model of the stack        *)
(*     machine.                                                            *)
(* Words are elements of the field of order P = 2^64 - 2^32 + 1; the model *)
(* keeps the shape of P and scales the limb width down (LimbBits), so that *)
(* every value fits the model checker's integers.                          *)
(***************************************************************************)
EXTENDS Integers, Sequences, FiniteSets, TLC

VARIABLES
    seen_snippets,   \* Library.seen_snippets: entrypoint name -> body
    free_pointer,    \* Library.free_pointer
    preallocated,    \* the words the library was created with
    status,          \* "running", "panicked", or "overflow" (call stack exhausted)
    last,            \* the call of the Library API the last step made
    roots,           \* snippets the owner has passed to import (SpecOrder)
    regions,         \* every region kmalloc has handed out, in call order
    gen_calls,       \* snippet -> number of times its generator was entered
    exported,        \* what the last export of this session returned
    prev,            \* what the last export of the previous session returned
    second,          \* TRUE in the second session
    object,          \* the record encoded to memory: its type, value, address
    request,         \* the accessor of TasmObject asked for, and for which field
    program,         \* the instructions the accessor returned
    ip,              \* the position in program of the next instruction
    op_stack,        \* the machine's operational stack, top last
    ram,             \* the machine's memory: address -> word
    decoded,         \* what decode_from_memory returned for the object
    harness,         \* where ShadowedFunction::test or ::bench stands
    journal,         \* the calls test and bench have made, in order
    trial            \* a snippet run on the machine and as its shadow

libVars == <<seen_snippets, free_pointer, preallocated, status, last, roots,
             regions, gen_calls, exported, prev, second>>
vmVars == <<object, request, program, ip, op_stack, ram, decoded>>
harnessVars == <<harness, journal, trial>>
vars == <<seen_snippets, free_pointer, preallocated, status, last, roots,
          regions, gen_calls, exported, prev, second,
          object, request, program, ip, op_stack, ram, decoded,
          harness, journal, trial>>

----------------------------------------------------------------------------
(* Bounds *)

\* Width of a u32 in the model, in bits (a u64 has twice as many).
LimbBits == 10
\* Calls of kmalloc the session's owner makes in one session.
MaxAllocs == 3
\* Nested calls of Library::import the call stack has room for.
MaxDepth == 4
\* Words in the encoding of a field of dynamic size, its length prefix apart.
MaxFieldLen == 2

----------------------------------------------------------------------------
(* Words: BFieldElement *)

U32_MAX == 2^LimbBits - 1
U64_MAX == 2^(2 * LimbBits) - 1
P == 2^(2 * LimbBits) - 2^LimbBits + 1
MAX == P - 1

BFieldElement_new(v) == v % P
BfeAdd(a, b) == (a + b) % P
BfeSub(a, b) == (a + P - b) % P
BfeNeg(a) == (P - a) % P

STATIC_MEMORY_START_ADDRESS == BFieldElement_new(MAX)

----------------------------------------------------------------------------
(* Instructions and snippets *)

Label(l)  == [op |-> "label",  lbl |-> l,  imm |-> 0]
Call(l)   == [op |-> "call",   lbl |-> l,  imm |-> 0]
Push(v)   == [op |-> "push",   lbl |-> "", imm |-> v]
Return    == [op |-> "return", lbl |-> "", imm |-> 0]
Add       == [op |-> "add",    lbl |-> "", imm |-> 0]
Pop(n)    == [op |-> "pop",    lbl |-> "", imm |-> n]
Swap(st)  == [op |-> "swap",   lbl |-> "", imm |-> st]
ReadMem(n) == [op |-> "read_mem", lbl |-> "", imm |-> n]
Mul       == [op |-> "mul",    lbl |-> "", imm |-> 0]
Dup(st)   == [op |-> "dup",    lbl |-> "", imm |-> st]
Lt        == [op |-> "lt",     lbl |-> "", imm |-> 0]
AssertTop == [op |-> "assert", lbl |-> "", imm |-> 0]
Pow       == [op |-> "pow",    lbl |-> "", imm |-> 0]
Split     == [op |-> "split",  lbl |-> "", imm |-> 0]

\* The snippets of library.rs's tests.
DummySnippets == {"DummyTestSnippetA", "DummyTestSnippetB", "DummyTestSnippetC"}

DummyEntrypoint(s) ==
    CASE s = "DummyTestSnippetA" -> "tasm_a_dummy_test_value"
      [] s = "DummyTestSnippetB" -> "tasm_b_dummy_test_value"
      [] s = "DummyTestSnippetC" -> "tasm_c_dummy_test_value"

\* Snippets whose generator claims static memory with kmalloc and writes
\* the address it got into its body.
StaticSnippets == {"StaticA", "StaticB"}

StaticEntrypoint(s) ==
    CASE s = "StaticA" -> "tasm_k_static_a"
      [] s = "StaticB" -> "tasm_l_static_b"

\* Two snippets whose generators import each other.
CyclicSnippets == {"CyclicX", "CyclicY"}

CyclicEntrypoint(s) ==
    CASE s = "CyclicX" -> "tasm_x_cyclic"
      [] s = "CyclicY" -> "tasm_y_cyclic"

\* list Get<N>, for the element sizes N = 1 and N = 2.
GetSnippets == {"Get<1>", "Get<2>"}

GetN(s) == IF s = "Get<1>" THEN 1 ELSE 2

GetEntrypoint(s) == "list_get_element"

\* Map over a safe and over an unsafe list, the inner function being the
\* snippet TestHashXFieldElement; the snippets their generators import.
MapSnippets == {"Map(Safe)", "Map(Unsafe)"}

InnerSnippets == {"TestHashXFieldElement"}

\* The snippets Map::code imports for its list type, in the order of import.
ListSnippets(s) ==
    IF s = "Map(Safe)"
        THEN <<"SafeLength", "SafeSetLength", "SafeNew", "SafeGet", "SafeSet">>
        ELSE <<"UnsafeLength", "UnsafeSetLength", "UnsafeNew", "UnsafeGet",
               "UnsafeSet">>

LeafSnippets ==
    {ListSnippets(s)[i] : s \in MapSnippets, i \in 1..5} \cup {"SafeAdd"}

MapEntrypoint(s) ==
    CASE s = "Map(Safe)" ->
            "tasm_list_higher_order_safeimplu32_u32_map_test_hash_xfield_element"
      [] s = "Map(Unsafe)" ->
            "tasm_list_higher_order_unsafeimplu32_u32_map_test_hash_xfield_element"
      [] s = "TestHashXFieldElement" -> "test_hash_xfield_element"

LeafEntrypoint(s) ==
    CASE s = "SafeAdd" -> "tasm_arithmetic_u32_safe_add"
      [] s = "SafeLength" -> "tasm_list_safeimplu32_length"
      [] s = "SafeSetLength" -> "tasm_list_safeimplu32_set_length"
      [] s = "SafeNew" -> "tasm_list_safeimplu32_new"
      [] s = "SafeGet" -> "tasm_list_safeimplu32_get"
      [] s = "SafeSet" -> "tasm_list_safeimplu32_set_element"
      [] s = "UnsafeLength" -> "tasm_list_unsafeimplu32_length"
      [] s = "UnsafeSetLength" -> "tasm_list_unsafeimplu32_set_length"
      [] s = "UnsafeNew" -> "tasm_list_unsafeimplu32_new"
      [] s = "UnsafeGet" -> "tasm_list_unsafeimplu32_get"
      [] s = "UnsafeSet" -> "tasm_list_unsafeimplu32_set_element"

Snippets == DummySnippets \cup StaticSnippets \cup CyclicSnippets
                \cup GetSnippets \cup MapSnippets \cup InnerSnippets
                \cup LeafSnippets

entrypoint(s) ==
    CASE s \in DummySnippets  -> DummyEntrypoint(s)
      [] s \in StaticSnippets -> StaticEntrypoint(s)
      [] s \in CyclicSnippets -> CyclicEntrypoint(s)
      [] s \in GetSnippets    -> GetEntrypoint(s)
      [] s \in MapSnippets \cup InnerSnippets -> MapEntrypoint(s)
      [] s \in LeafSnippets   -> LeafEntrypoint(s)

\* Every name of the model, in the order of String's Ord (lexicographic).
AllNames == <<"list_get_element",
              "tasm_a_dummy_test_value",
              "tasm_arithmetic_u32_safe_add",
              "tasm_b_dummy_test_value",
              "tasm_c_dummy_test_value",
              "tasm_k_static_a", "tasm_l_static_b",
              "tasm_list_higher_order_safeimplu32_u32_map_test_hash_xfield_element",
              "tasm_list_higher_order_unsafeimplu32_u32_map_test_hash_xfield_element",
              "tasm_list_safeimplu32_get",
              "tasm_list_safeimplu32_length",
              "tasm_list_safeimplu32_new",
              "tasm_list_safeimplu32_set_element",
              "tasm_list_safeimplu32_set_length",
              "tasm_list_unsafeimplu32_get",
              "tasm_list_unsafeimplu32_length",
              "tasm_list_unsafeimplu32_new",
              "tasm_list_unsafeimplu32_set_element",
              "tasm_list_unsafeimplu32_set_length",
              "tasm_x_cyclic", "tasm_y_cyclic",
              "test_hash_xfield_element">>

Rank(name) == CHOOSE i \in 1..Len(AllNames) : AllNames[i] = name
StrLess(a, b) == Rank(a) < Rank(b)

\* What a snippet's generator asks of the library, in program order.
ImportStep(s) == [kind |-> "import", snip |-> s, n |-> 0]
KmallocStep(n) == [kind |-> "kmalloc", snip |-> "", n |-> n]
\* The generator of s is called directly and the body it returns is handed
\* to explicit_import under the name of s.
GenerateStep(s) == [kind |-> "generate", snip |-> s, n |-> 0]

DummySteps(s) ==
    CASE s = "DummyTestSnippetA" ->
            <<ImportStep("DummyTestSnippetB"), ImportStep("DummyTestSnippetC")>>
      [] s = "DummyTestSnippetB" -> <<ImportStep("DummyTestSnippetC")>>
      [] s = "DummyTestSnippetC" -> <<>>

StaticSteps(s) ==
    CASE s = "StaticA" -> <<KmallocStep(1)>>
      [] s = "StaticB" -> <<KmallocStep(7)>>

CyclicSteps(s) ==
    CASE s = "CyclicX" -> <<ImportStep("CyclicY")>>
      [] s = "CyclicY" -> <<ImportStep("CyclicX")>>

\* Map::code: the five list snippets of its list type, then the inner
\* function; TestHashXFieldElement imports SafeAdd; the others import nothing.
MapSteps(s) ==
    CASE s \in MapSnippets ->
            [i \in 1..Len(ListSnippets(s)) |-> ImportStep(ListSnippets(s)[i])]
            \o <<GenerateStep("TestHashXFieldElement")>>
      [] s = "TestHashXFieldElement" -> <<ImportStep("SafeAdd")>>

Steps(s) ==
    CASE s \in DummySnippets  -> DummySteps(s)
      [] s \in StaticSnippets -> StaticSteps(s)
      [] s \in CyclicSnippets -> CyclicSteps(s)
      [] s \in MapSnippets \cup InnerSnippets -> MapSteps(s)
      [] s \in GetSnippets \cup LeafSnippets  -> <<>>

\* The body the generator returns, given the names its imports returned and
\* the addresses its allocations returned.
DummyCode(s, names) ==
    CASE s = "DummyTestSnippetA" ->
            <<Label(entrypoint(s)), Call(names[1]), Call(names[2]), Return>>
      [] s = "DummyTestSnippetB" ->
            <<Label(entrypoint(s)), Call(names[1]), Call(names[1]), Return>>
      [] s = "DummyTestSnippetC" ->
            <<Label(entrypoint(s)), Push(1), Return>>

StaticCode(s, addrs) == <<Label(entrypoint(s)), Push(addrs[1]), Return>>

CyclicCode(s, names) == <<Label(entrypoint(s)), Call(names[1]), Return>>

\* Get<N>::function_body: the address of the element's last word, then N
\* times a read and, but for the last, a step down.
RECURSIVE code_to_read_elements(_, _)
code_to_read_elements(N, i) ==
    IF i >= N THEN <<>>
    ELSE <<Push(0), ReadMem(0), Swap(1)>>
         \o (IF i # N - 1 THEN <<Push(BfeNeg(1)), Add>> ELSE <<>>)
         \o code_to_read_elements(N, i + 1)

GetCode(s) ==
    <<Label(entrypoint(s)), Push(1), Add, Push(GetN(s)), Mul, Add>>
    \o code_to_read_elements(GetN(s), 0)
    \o <<Pop(1), Return>>

\* The calls in the bodies of Map and of its inner function; a snippet that
\* imports nothing is its label and a return.
MapCode(s, names) ==
    CASE s \in MapSnippets ->
            <<Label(entrypoint(s)), Call(names[1]), Call(names[3]),
              Call(names[2]), Call(names[4]), Call(names[6]), Call(names[5]),
              Return>>
      [] s = "TestHashXFieldElement" ->
            <<Label(entrypoint(s)), Call(names[1]), Return>>

LeafCode(s) == <<Label(entrypoint(s)), Return>>

Code(s, names, addrs) ==
    CASE s \in DummySnippets  -> DummyCode(s, names)
      [] s \in StaticSnippets -> StaticCode(s, addrs)
      [] s \in CyclicSnippets -> CyclicCode(s, names)
      [] s \in GetSnippets    -> GetCode(s)
      [] s \in MapSnippets \cup InnerSnippets -> MapCode(s, names)
      [] s \in LeafSnippets   -> LeafCode(s)

----------------------------------------------------------------------------
(* Library *)

EmptyMap == [name \in {} |-> <<>>]
Insert(map, key, value) ==
    [name \in DOMAIN map \cup {key} |-> IF name = key THEN value ELSE map[name]]

\* Library::new and Library::with_preallocated_memory
\* (a variant: the count is added to the start address)
with_preallocated_memory_added(words_statically_allocated) ==
    BfeAdd(STATIC_MEMORY_START_ADDRESS, BFieldElement_new(words_statically_allocated + 1))

with_preallocated_memory(words_statically_allocated) ==
    BfeSub(STATIC_MEMORY_START_ADDRESS, BFieldElement_new(words_statically_allocated))

\* The library as one value: the struct's two fields, and what the model
\* records about the calls made on it.
Library ==
    [seen_snippets |-> seen_snippets, free_pointer |-> free_pointer,
     status |-> status, regions |-> regions, gen_calls |-> gen_calls,
     deepest |-> 0]

\* Variants of kmalloc's arithmetic: the address is the pointer after the
\* decrement; the pointer moves one word too little.
kmalloc_address_at_new_pointer(fp, num_words) ==
    BfeSub(fp, BFieldElement_new(num_words))
kmalloc_free_pointer_short(fp, num_words) ==
    BfeSub(fp, BFieldElement_new(IF num_words = 0 THEN 0 ELSE num_words - 1))

\* Library::kmalloc. `num_words as u64 - 1` underflows for num_words = 0: a
\* build with overflow checks panics there, one without wraps to u64::MAX.
kmalloc_address(fp, num_words) ==
    BfeSub(fp, BFieldElement_new(IF num_words = 0 THEN U64_MAX ELSE num_words - 1))
kmalloc_free_pointer(fp, num_words) ==
    BfeSub(fp, BFieldElement_new(num_words))

kmalloc_panics(lib, num_words, by) ==
    [lib EXCEPT !.status = "panicked"]
kmalloc_returns(lib, num_words, by) ==
    [lib EXCEPT !.free_pointer = kmalloc_free_pointer(lib.free_pointer, num_words),
                !.regions = Append(@,
                    [address |-> kmalloc_address(lib.free_pointer, num_words),
                     n |-> num_words, by |-> by])]

\* Library::explicit_import (a variant: the body given replaces the one held)
explicit_import_into_replacing(seen, name, body) ==
    Insert(seen, name, body)

\* Library::explicit_import (a variant: the test of the name turned around)
explicit_import_into_known(seen, name, body) ==
    IF name \in DOMAIN seen THEN Insert(seen, name, body) ELSE seen

\* Library::explicit_import
explicit_import_into(seen, name, body) ==
    IF name \notin DOMAIN seen THEN Insert(seen, name, body) ELSE seen

\* Library::import(snippet) called with `depth` calls of import already on
\* the call stack, and snippet.code(library), which it calls for a new
\* dependency. call_code runs the generator from its step `pc` on, `names`
\* and `addrs` being what its calls have returned so far, and yields the
\* library and the body.
RECURSIVE import_at(_, _, _)
RECURSIVE generate_at(_, _, _)
RECURSIVE call_code(_, _, _, _, _, _)

\* Variants of import with a slip in them: the generator runs again for a
\* known dependency; only the outermost call stores its body; the name is
\* stored before the generator runs.
import_at_regenerating(lib, s, depth) ==
    LET dep_entrypoint == entrypoint(s)
    IN  IF depth >= MaxDepth THEN [lib EXCEPT !.status = "overflow"]
        ELSE LET entered == [lib EXCEPT !.gen_calls[s] = @ + 1,
                                        !.deepest = IF depth + 1 > @ THEN depth + 1 ELSE @]
                 done == call_code(entered, s, 1, <<>>, <<>>, depth + 1)
             IN  IF done.lib.status # "running" THEN done.lib
                 ELSE [done.lib EXCEPT !.seen_snippets =
                           Insert(@, dep_entrypoint, done.dep_body)]

import_at_storing_outermost(lib, s, depth) ==
    LET dep_entrypoint == entrypoint(s)
        is_new_dependency == dep_entrypoint \notin DOMAIN lib.seen_snippets
    IN  IF ~is_new_dependency THEN lib
        ELSE IF depth >= MaxDepth THEN [lib EXCEPT !.status = "overflow"]
        ELSE LET entered == [lib EXCEPT !.gen_calls[s] = @ + 1,
                                        !.deepest = IF depth + 1 > @ THEN depth + 1 ELSE @]
                 done == call_code(entered, s, 1, <<>>, <<>>, depth + 1)
             IN  IF done.lib.status # "running" \/ depth > 0 THEN done.lib
                 ELSE [done.lib EXCEPT !.seen_snippets =
                           Insert(@, dep_entrypoint, done.dep_body)]

import_at_storing_first(lib, s, depth) ==
    LET dep_entrypoint == entrypoint(s)
        is_new_dependency == dep_entrypoint \notin DOMAIN lib.seen_snippets
    IN  IF ~is_new_dependency THEN lib
        ELSE IF depth >= MaxDepth THEN [lib EXCEPT !.status = "overflow"]
        ELSE LET entered == [lib EXCEPT !.gen_calls[s] = @ + 1,
                                        !.deepest = IF depth + 1 > @ THEN depth + 1 ELSE @,
                                        !.seen_snippets = Insert(@, dep_entrypoint, <<>>)]
                 done == call_code(entered, s, 1, <<>>, <<>>, depth + 1)
             IN  IF done.lib.status # "running" THEN done.lib
                 ELSE [done.lib EXCEPT !.seen_snippets =
                           Insert(@, dep_entrypoint, done.dep_body)]

import_at(lib, s, depth) ==
    LET dep_entrypoint == entrypoint(s)
        is_new_dependency == dep_entrypoint \notin DOMAIN lib.seen_snippets
    IN  IF ~is_new_dependency THEN lib
        ELSE IF depth >= MaxDepth THEN [lib EXCEPT !.status = "overflow"]
        ELSE LET entered == [lib EXCEPT !.gen_calls[s] = @ + 1,
                                        !.deepest = IF depth + 1 > @ THEN depth + 1 ELSE @]
                 done == call_code(entered, s, 1, <<>>, <<>>, depth + 1)
             IN  IF done.lib.status # "running" THEN done.lib
                 ELSE [done.lib EXCEPT !.seen_snippets =
                           Insert(@, dep_entrypoint, done.dep_body)]

\* Map::code for an inner function that is a snippet: sn.function_code(library)
\* is called whether or not the name is known, and the body it returns is
\* given to explicit_import.
generate_at(lib, s, depth) ==
    IF depth >= MaxDepth THEN [lib EXCEPT !.status = "overflow"]
    ELSE LET entered == [lib EXCEPT !.gen_calls[s] = @ + 1,
                                    !.deepest = IF depth + 1 > @ THEN depth + 1 ELSE @]
             done == call_code(entered, s, 1, <<>>, <<>>, depth + 1)
         IN  IF done.lib.status # "running" THEN done.lib
             ELSE [done.lib EXCEPT !.seen_snippets =
                       explicit_import_into(@, entrypoint(s), done.dep_body)]

call_code(lib, s, pc, names, addrs, depth) ==
    IF lib.status # "running" THEN [lib |-> lib, dep_body |-> <<>>]
    ELSE IF pc > Len(Steps(s)) THEN [lib |-> lib, dep_body |-> Code(s, names, addrs)]
    ELSE LET step == Steps(s)[pc]
         IN  IF step.kind = "import"
             THEN call_code(import_at(lib, step.snip, depth), s, pc + 1,
                            Append(names, entrypoint(step.snip)), addrs, depth)
             ELSE IF step.kind = "generate"
             THEN call_code(generate_at(lib, step.snip, depth), s, pc + 1,
                            Append(names, entrypoint(step.snip)), addrs, depth)
             ELSE call_code(kmalloc_returns(lib, step.n, s), s, pc + 1, names,
                            Append(addrs, kmalloc_address(lib.free_pointer, step.n)),
                            depth)

NoCall == [op |-> "none", snip |-> "", name |-> "", body |-> <<>>, n |-> 0,
           returned |-> FALSE, rname |-> "", raddr |-> 0, deepest |-> 0]
NoExport == [valid |-> FALSE, roots |-> {}, names |-> <<>>,
             deps |-> <<>>, code |-> <<>>]
NoObject == [valid |-> FALSE, type |-> "", fields |-> <<>>, address |-> 0]
NoRequest == [accessor |-> "", field_name |-> "", status |-> "none"]
EmptyRam == [address \in {} |-> 0]
NotDecoded == [status |-> "none", fields |-> <<>>]
Idle == [proc |-> "idle", function |-> "", corner_cases |-> <<>>, i |-> 0,
         benchmarks |-> <<>>]
NoTrial == [snippet |-> "", stack |-> <<>>, tasm |-> [ok |-> FALSE, stack |-> <<>>],
            rust |-> [ok |-> FALSE, stack |-> <<>>]]

Preallocated == {0, 3}
AllocSizes == {0, 1, 7, 1000}
RawNames == {"tasm_c_dummy_test_value", "tasm_y_cyclic"}
RawBodies == {<<Push(0), Return>>, <<Push(1), Return>>}

Init ==
    /\ seen_snippets = EmptyMap
    /\ preallocated \in Preallocated
    /\ free_pointer = with_preallocated_memory(preallocated)
    /\ status = "running"
    /\ last = NoCall
    /\ roots = {}
    /\ regions = <<>>
    /\ gen_calls = [s \in Snippets |-> 0]
    /\ exported = NoExport
    /\ prev = NoExport
    /\ second = FALSE
    /\ object = NoObject
    /\ request = NoRequest
    /\ program = <<>>
    /\ ip = 0
    /\ op_stack = <<>>
    /\ ram = EmptyRam
    /\ decoded = NotDecoded
    /\ harness = Idle
    /\ journal = <<>>
    /\ trial = NoTrial

\* The owner of the session calls Library::import.
import_call(s) ==
    /\ status = "running"
    /\ ~exported.valid
    /\ LET lib == import_at(Library, s, 0)
       IN  /\ seen_snippets' = lib.seen_snippets
           /\ free_pointer' = lib.free_pointer
           /\ status' = lib.status
           /\ regions' = lib.regions
           /\ gen_calls' = lib.gen_calls
           /\ last' = [NoCall EXCEPT !.op = "import", !.snip = s,
                                     !.returned = (lib.status = "running"),
                                     !.rname = IF lib.status = "running"
                                                 THEN entrypoint(s) ELSE "",
                                     !.deepest = lib.deepest]
    /\ UNCHANGED <<preallocated, exported, prev, second>>
    /\ UNCHANGED <<vmVars, harnessVars>>

import(s) == import_call(s) /\ UNCHANGED roots
\* The same, the model noting which snippets the owner has asked for.
import_noted(s) == import_call(s) /\ roots' = roots \cup {s}

explicit_import(name, body) ==
    /\ status = "running"
    /\ ~exported.valid
    /\ seen_snippets' = explicit_import_into(seen_snippets, name, body)
    /\ last' = [NoCall EXCEPT !.op = "explicit_import", !.name = name,
                              !.body = body,
                              !.returned = TRUE, !.rname = name]
    /\ UNCHANGED <<free_pointer, preallocated, status, roots, regions,
                   gen_calls, exported, prev, second>>
    /\ UNCHANGED <<vmVars, harnessVars>>

OwnerAllocs == Cardinality({i \in 1..Len(regions) : regions[i].by = "owner"})

\* The owner of the session calls Library::kmalloc.
kmalloc(num_words) ==
    /\ status = "running"
    /\ ~exported.valid
    /\ OwnerAllocs < MaxAllocs
    /\ \E lib \in {kmalloc_returns(Library, num_words, "owner")}
                  \cup (IF num_words = 0
                          THEN {kmalloc_panics(Library, num_words, "owner")}
                          ELSE {}) :
          /\ free_pointer' = lib.free_pointer
          /\ status' = lib.status
          /\ regions' = lib.regions
          /\ last' = [NoCall EXCEPT !.op = "kmalloc", !.n = num_words,
                          !.returned = (lib.status = "running"),
                          !.raddr = IF lib.status = "running"
                                      THEN kmalloc_address(free_pointer, num_words)
                                      ELSE 0]
    /\ UNCHANGED <<seen_snippets, preallocated, roots, gen_calls, exported,
                   prev, second>>
    /\ UNCHANGED <<vmVars, harnessVars>>

\* Every order in which HashMap::iter may yield the keys.
RECURSIVE Orders(_)
Orders(keys) ==
    IF keys = {} THEN {<<>>}
    ELSE UNION {{<<k>> \o rest : rest \in Orders(keys \ {k})} : k \in keys}

\* Sorting with the comparison turned around.
RECURSIVE InsertSortedDescending(_, _)
InsertSortedDescending(sorted, name) ==
    IF sorted = <<>> THEN <<name>>
    ELSE IF StrLess(Head(sorted), name) THEN <<name>> \o sorted
    ELSE <<Head(sorted)>> \o InsertSortedDescending(Tail(sorted), name)

\* sorted_by_key / sort_unstable on names: ascending by String's Ord.
RECURSIVE InsertSorted(_, _)
InsertSorted(sorted, name) ==
    IF sorted = <<>> THEN <<name>>
    ELSE IF StrLess(name, Head(sorted)) THEN <<name>> \o sorted
    ELSE <<Head(sorted)>> \o InsertSorted(Tail(sorted), name)

RECURSIVE Sorted(_)
Sorted(names) ==
    IF names = <<>> THEN <<>>
    ELSE InsertSorted(Sorted(Tail(names)), Head(names))

RECURSIVE Concat(_)
Concat(lists) ==
    IF lists = <<>> THEN <<>> ELSE Head(lists) \o Concat(Tail(lists))

\* The dependencies in the map's own order, not sorted.
all_external_dependencies_unsorted(iter) ==
    [i \in 1..Len(iter) |-> seen_snippets[iter[i]]]

\* Library::all_external_dependencies, get_all_snippet_names and all_imports,
\* given the order in which the map yields its keys.
all_external_dependencies(iter) ==
    LET by_key == Sorted(iter)
    IN  [i \in 1..Len(by_key) |-> seen_snippets[by_key[i]]]
get_all_snippet_names(iter) == Sorted(iter)
all_imports(iter) == Concat(all_external_dependencies(iter))

\* The owner exports the library, which ends the session: the names, the
\* dependencies and the concatenated imports.
export ==
    /\ status = "running"
    /\ ~exported.valid
    /\ \E iter \in Orders(DOMAIN seen_snippets) :
          exported' = [valid |-> TRUE, roots |-> roots,
                       names |-> get_all_snippet_names(iter),
                       deps |-> all_external_dependencies(iter),
                       code |-> all_imports(iter)]
    /\ last' = [NoCall EXCEPT !.op = "export", !.returned = TRUE]
    /\ UNCHANGED <<seen_snippets, free_pointer, preallocated, status, roots,
                   regions, gen_calls, prev, second>>
    /\ UNCHANGED <<vmVars, harnessVars>>

\* The owner builds the same kind of program again, with a new library.
new_session ==
    /\ status = "running"
    /\ exported.valid
    /\ ~second
    /\ seen_snippets' = EmptyMap
    /\ preallocated' = 0
    /\ free_pointer' = STATIC_MEMORY_START_ADDRESS
    /\ roots' = {}
    /\ regions' = <<>>
    /\ gen_calls' = [s \in Snippets |-> 0]
    /\ prev' = exported
    /\ exported' = NoExport
    /\ second' = TRUE
    /\ last' = [NoCall EXCEPT !.op = "new"]
    /\ UNCHANGED status
    /\ UNCHANGED <<vmVars, harnessVars>>

\* A session that links a program: the owner imports snippets and raw code,
\* claims a block of static memory now and then, and exports.
LinkSizes == {1000}
LinkSnippets == DummySnippets \cup CyclicSnippets
Next ==
    \/ \E s \in LinkSnippets : import(s)
    \/ \E name \in RawNames, body \in RawBodies : explicit_import(name, body)
    \/ \E num_words \in LinkSizes : kmalloc(num_words)
    \/ export

Spec == Init /\ [][Next]_vars

\* A session that claims static memory: by the owner, and by the generators
\* of the snippets it imports.
NextAlloc ==
    \/ \E s \in StaticSnippets : import(s)
    \/ \E num_words \in AllocSizes : kmalloc(num_words)

SpecAlloc == Init /\ [][NextAlloc]_vars

\* The same kind of program built twice, each time with a new library and
\* the imports in an order of the owner's choosing.
AcyclicSnippets == DummySnippets \cup StaticSnippets
InitNew == Init /\ preallocated = 0
NextOrder ==
    \/ \E s \in AcyclicSnippets : import_noted(s)
    \/ export
    \/ new_session

SpecOrder == InitNew /\ [][NextOrder]_vars

\* A session that builds a program over lists: the owner imports Get for two
\* element sizes, Map over both kinds of list, Map's inner function and a
\* snippet that claims static memory, and hands in raw code under the inner
\* function's name.
ListSessionSnippets ==
    GetSnippets \cup MapSnippets \cup InnerSnippets \cup {"StaticA"}
ListSessionNames == {"test_hash_xfield_element"}
NextList ==
    \/ \E s \in ListSessionSnippets : import_noted(s)
    \/ \E name \in ListSessionNames, body \in RawBodies : explicit_import(name, body)

SpecList == InitNew /\ [][NextList]_vars

----------------------------------------------------------------------------
(* TasmObject: the derive macro *)

\* BFieldCodec::static_length of a field's type.
Some(size) == [is_some |-> TRUE, size |-> size]
None == [is_some |-> FALSE, size |-> 0]

\* A field of a struct: its identifier ("" in a tuple struct), the static
\* length of its type, and whether it is marked #[tasm_object(ignore)].
Field(ident, static_length, ignore) ==
    [ident |-> ident, static_length |-> static_length, ignore |-> ignore]

\* The fields of a tuple struct with an ignored field are of one type: the
\* constructor the macro writes for it type-checks for no other.
StructTypes == {"NamedPair", "NamedFields", "NamedIgnoring",
                "TupleStruct", "TupleIgnoring", "TupleIgnoringFirst",
                "TupleIgnoringLast"}

StructForm(type) ==
    IF type \in {"NamedPair", "NamedFields", "NamedIgnoring"}
        THEN "named" ELSE "unnamed"

StructFields(type) ==
    CASE type = "NamedPair" ->
            <<Field("a", None, FALSE), Field("b", Some(1), FALSE)>>
      [] type = "NamedFields" ->
            <<Field("a", Some(2), FALSE), Field("b", None, FALSE),
              Field("c", None, FALSE)>>
      [] type = "NamedIgnoring" ->
            <<Field("a", None, FALSE), Field("b", Some(1), TRUE),
              Field("c", Some(2), FALSE)>>
      [] type = "TupleStruct" ->
            <<Field("", None, FALSE), Field("", Some(1), FALSE),
              Field("", None, FALSE)>>
      [] type = "TupleIgnoring" ->
            <<Field("", None, FALSE), Field("", None, TRUE),
              Field("", None, FALSE)>>
      [] type = "TupleIgnoringFirst" ->
            <<Field("", Some(1), TRUE), Field("", Some(1), FALSE),
              Field("", Some(1), FALSE)>>
      [] type = "TupleIgnoringLast" ->
            <<Field("", Some(1), FALSE), Field("", Some(1), FALSE),
              Field("", Some(1), TRUE)>>
      [] type = "Vec" -> <<>>

field_is_ignored(field) == field.ignore
field_is_kept(field) == ~field_is_ignored(field)

Reverse(seq) == [i \in 1..Len(seq) |-> seq[Len(seq) + 1 - i]]

\* format_ident!("field_{}", n)
FieldIdents == <<"field_0", "field_1", "field_2">>
format_ident(n) == FieldIdents[n + 1]

\* Variants of the getter and the sizer: the getter never steps over the
\* length, the sizer leaves the jump distance as the size.
generate_tasm_for_getter_postprocess_at_start(static_length) ==
    <<Pop(1)>>

generate_tasm_for_sizer_postprocess_with_jump(static_length) ==
    IF static_length.is_some
        THEN <<>>
        ELSE <<Swap(1), Push(BFieldElement_new(1)), Add, Swap(1)>>

generate_tasm_for_getter_postprocess(static_length) ==
    IF static_length.is_some
        THEN <<Pop(1)>>
        ELSE <<Pop(1), Push(BFieldElement_new(1)), Add>>

generate_tasm_for_sizer_postprocess(static_length) ==
    IF static_length.is_some
        THEN <<>>
        ELSE <<Push(BfeNeg(BFieldElement_new(1))), Add, Swap(1),
               Push(BFieldElement_new(1)), Add, Swap(1)>>

\* A variant of the jumper below: a static size is pushed one too large.
generate_tasm_for_extend_field_start_with_jump_amount_oversized(static_length) ==
    IF static_length.is_some
        THEN <<Push(BFieldElement_new(static_length.size + 1))>>
        ELSE <<ReadMem(1), Push(BFieldElement_new(1)), Add, Swap(1),
               Push(BFieldElement_new(1)), Add>>

\* A variant of the jumper below: the last push is of two.
generate_tasm_for_extend_field_start_with_jump_amount_by_two(static_length) ==
    IF static_length.is_some
        THEN <<Push(BFieldElement_new(static_length.size))>>
        ELSE <<ReadMem(1), Push(BFieldElement_new(1)), Add, Swap(1),
               Push(BFieldElement_new(2)), Add>>

generate_tasm_for_extend_field_start_with_jump_amount(static_length) ==
    IF static_length.is_some
        THEN <<Push(BFieldElement_new(static_length.size))>>
        ELSE <<ReadMem(1), Push(BFieldElement_new(1)), Add, Swap(1),
               Push(BFieldElement_new(1)), Add>>

generate_tokens_for_struct_with_named_fields(fields) ==
    LET ignored_fields == SelectSeq(Reverse(fields), field_is_ignored)
        named_fields == SelectSeq(Reverse(fields), field_is_kept)
    IN  [field_names |-> [i \in 1..Len(named_fields) |-> named_fields[i].ident],
         field_types |->
            [i \in 1..Len(named_fields) |-> named_fields[i].static_length],
         getters |-> [i \in 1..Len(named_fields) |->
            generate_tasm_for_getter_postprocess(named_fields[i].static_length)],
         sizers |-> [i \in 1..Len(named_fields) |->
            generate_tasm_for_sizer_postprocess(named_fields[i].static_length)],
         jumpers |-> [i \in 1..Len(named_fields) |->
            generate_tasm_for_extend_field_start_with_jump_amount(
                named_fields[i].static_length)],
         ignored_fields |-> ignored_fields]

generate_tokens_for_struct_with_unnamed_fields(fields) ==
    LET fields_iterator == Reverse(fields)
        ignored_fields == SelectSeq(fields_iterator, field_is_ignored)
        field_count == Len(fields_iterator)
        kept == SelectSeq(fields_iterator, field_is_kept)
    IN  [field_names |->
            [i \in 1..Len(kept) |-> format_ident(field_count - 1 - (i - 1))],
         field_types |->
            [i \in 1..field_count |-> fields_iterator[i].static_length],
         getters |-> [i \in 1..field_count |->
            generate_tasm_for_getter_postprocess(fields_iterator[i].static_length)],
         sizers |-> [i \in 1..field_count |->
            generate_tasm_for_sizer_postprocess(fields_iterator[i].static_length)],
         jumpers |-> [i \in 1..field_count |->
            generate_tasm_for_extend_field_start_with_jump_amount(
                fields_iterator[i].static_length)],
         ignored_fields |-> ignored_fields]

generate_parse_result(type) ==
    IF StructForm(type) = "named"
        THEN generate_tokens_for_struct_with_named_fields(StructFields(type))
        ELSE generate_tokens_for_struct_with_unnamed_fields(StructFields(type))

\* A variant of the match below without the arm that panics: a name that no
\* arm is made for takes the first arm.
clause_index_without_panic(parse_result, field_name) ==
    LET matching == {i \in 1..Len(parse_result.field_names) :
                        parse_result.field_names[i] = field_name}
    IN  IF matching = {} THEN 1
        ELSE CHOOSE i \in matching : \A j \in matching : i <= j

\* The arm of `match field_name` that is taken: the first whose name is
\* field_name, 0 for the arm that panics.
clause_index(parse_result, field_name) ==
    LET matching == {i \in 1..Len(parse_result.field_names) :
                        parse_result.field_names[i] = field_name}
    IN  IF matching = {} THEN 0
        ELSE CHOOSE i \in matching : \A j \in matching : i <= j

\* A variant of the accessor below: the start of the field before is left out.
get_field_start_with_jump_distance_unchained(parse_result, field_name) ==
    parse_result.jumpers[clause_index(parse_result, field_name)]

RECURSIVE get_field_start_with_jump_distance(_, _)
get_field_start_with_jump_distance(parse_result, field_name) ==
    LET index == clause_index(parse_result, field_name)
        jumper == parse_result.jumpers[index]
    IN  IF index = 1 THEN jumper
        ELSE get_field_start_with_jump_distance(
                 parse_result, parse_result.field_names[index - 1])
             \o <<Add>> \o jumper

get_current_field_start_with_jump(parse_result, index) ==
    LET jumper == parse_result.jumpers[index]
    IN  IF index = 1 THEN jumper
        ELSE get_field_start_with_jump_distance(
                 parse_result, parse_result.field_names[index - 1])
             \o <<Add>> \o jumper

get_field(parse_result, field_name) ==
    LET index == clause_index(parse_result, field_name)
        current == get_current_field_start_with_jump(parse_result, index)
        getter == parse_result.getters[index]
    IN  current \o getter

get_field_with_size(parse_result, field_name) ==
    LET index == clause_index(parse_result, field_name)
        current == get_current_field_start_with_jump(parse_result, index)
        getter_sizer == parse_result.sizers[index]
    IN  current \o getter_sizer

Accessors == {"get_field", "get_field_with_size",
              "get_field_start_with_jump_distance"}

accessor_code(parse_result, accessor, field_name) ==
    CASE accessor = "get_field" -> get_field(parse_result, field_name)
      [] accessor = "get_field_with_size" ->
            get_field_with_size(parse_result, field_name)
      [] accessor = "get_field_start_with_jump_distance" ->
            get_field_start_with_jump_distance(parse_result, field_name)

----------------------------------------------------------------------------
(* Objects in memory, and the machine that runs the accessors *)

\* The encoding of a struct: the fields that are not ignored, the last
\* declared first, a field of dynamic size behind its length.
encode_field(field, value) ==
    IF field.static_length.is_some THEN value ELSE <<Len(value)>> \o value

encode(fields, values) ==
    LET indices == SelectSeq(Reverse([i \in 1..Len(fields) |-> i]),
                             LAMBDA i : field_is_kept(fields[i]))
    IN  Concat([k \in 1..Len(indices) |->
                    encode_field(fields[indices[k]], values[indices[k]])])

encode_to_memory(memory, address, words) ==
    [a \in DOMAIN memory \cup {BfeAdd(address, i - 1) : i \in 1..Len(words)} |->
        IF \E i \in 1..Len(words) : a = BfeAdd(address, i - 1)
            THEN words[CHOOSE i \in 1..Len(words) : a = BfeAdd(address, i - 1)]
            ELSE memory[a]]

\* The words of the value of field i, `len` of them.
FieldWords(i, len) == [j \in 1..len |-> 100 * i + j]

FieldValues(i, field) ==
    IF field.static_length.is_some
        THEN {FieldWords(i, field.static_length.size)}
        ELSE {FieldWords(i, len) : len \in 0..MaxFieldLen}

ObjectValues(type) ==
    LET fields == StructFields(type)
        any == UNION {FieldValues(i, fields[i]) : i \in 1..Len(fields)}
    IN  {values \in [1..Len(fields) -> any] :
            \A i \in 1..Len(fields) : values[i] \in FieldValues(i, fields[i])}

\* Vec<T>, T a type of static length 1: the values, and the encoding (the
\* number of elements, then the elements).
VecElement == Some(1)
VecValues ==
    {[i \in 1..len |-> <<400 + i>>] : len \in 0..MaxFieldLen}

encode_value(type, values) ==
    IF type = "Vec"
        THEN <<Len(values)>> \o Concat(values)
        ELSE encode(StructFields(type), values)

\* impl TasmObject for Vec<T>: every accessor panics.
vec_accessor_panics(type) == type = "Vec"

ObjectAddresses == {1, 300, MAX - 1}
RequestedNames == {"a", "b", "c", "d", "field_0", "field_1", "field_2", "field_3"}

\* HashMap::get(..).unwrap_or(0): a word never written reads as zero.
ram_at(memory, address) ==
    IF address \in DOMAIN memory THEN memory[address] ELSE 0

\* BFieldCodec::decode of a field's type. A value is kept as the words that
\* encode it; the types are made of u32s, so a sequence of the right length
\* decodes unless a word is above u32::MAX.
Ok(value) == [ok |-> TRUE, value |-> value]
Err == [ok |-> FALSE, value |-> <<>>]

decode(static_length, sequence) ==
    IF /\ static_length.is_some => Len(sequence) = static_length.size
       /\ \A i \in 1..Len(sequence) : sequence[i] <= U32_MAX
        THEN Ok(sequence) ELSE Err

\* A variant of the function below: the words are read one address too high.
decode_from_memory_with_size_shifted(static_length, memory, address, size) ==
    decode(static_length,
           [i \in 1..size |-> ram_at(memory, BfeAdd(address, BFieldElement_new(i)))])

\* decode_from_memory_with_size::<T>, T the type with this static length
decode_from_memory_with_size(static_length, memory, address, size) ==
    LET sequence == [i \in 1..size |->
                        ram_at(memory, BfeAdd(address, BFieldElement_new(i - 1)))]
    IN  decode(static_length, sequence)

\* The stack under the pointer to the object.
StackBelow == <<11, 12>>

\* An object is encoded to the machine's memory.
encode_object(type, values, address) ==
    /\ ~object.valid
    /\ object' = [valid |-> TRUE, type |-> type, fields |-> values,
                  address |-> address]
    /\ ram' = encode_to_memory(ram, address, encode_value(type, values))
    /\ UNCHANGED <<request, program, ip, op_stack, decoded>>
    /\ UNCHANGED <<libVars, harnessVars>>

\* An accessor of the object's type is asked for a field, and the machine is
\* started on the code with the pointer to the object on top of the stack.
call_accessor(accessor, field_name) ==
    /\ object.valid
    /\ request.status = "none"
    /\ decoded.status = "none"
    /\ LET parse_result == generate_parse_result(object.type)
           known == /\ ~vec_accessor_panics(object.type)
                    /\ clause_index(parse_result, field_name) # 0
       IN  /\ request' = [accessor |-> accessor, field_name |-> field_name,
                          status |-> IF known THEN "running" ELSE "panicked"]
           /\ program' = IF known
                           THEN accessor_code(parse_result, accessor, field_name)
                           ELSE <<>>
           /\ ip' = IF known THEN 1 ELSE 0
           /\ op_stack' = IF known THEN StackBelow \o <<object.address>> ELSE <<>>
    /\ UNCHANGED <<object, ram, decoded>>
    /\ UNCHANGED <<libVars, harnessVars>>

\* What one instruction makes of the stack.
DropLast(stack, n) == SubSeq(stack, 1, Len(stack) - n)
ST(stack, i) == stack[Len(stack) - i]

execute(instruction, stack, memory) ==
    CASE instruction.op = "push" -> Append(stack, instruction.imm)
      [] instruction.op = "add" ->
            Append(DropLast(stack, 2), BfeAdd(ST(stack, 1), ST(stack, 0)))
      [] instruction.op = "pop" -> DropLast(stack, instruction.imm)
      [] instruction.op = "swap" ->
            [k \in 1..Len(stack) |->
                IF k = Len(stack) THEN ST(stack, instruction.imm)
                ELSE IF k = Len(stack) - instruction.imm THEN ST(stack, 0)
                ELSE stack[k]]
      [] instruction.op = "read_mem" ->
            DropLast(stack, 1)
                \o <<ram_at(memory, ST(stack, 0)), BfeSub(ST(stack, 0), 1)>>

\* The stack the machine ends with when it runs a program from `pc` on.
RECURSIVE run(_, _, _, _)
run(instructions, pc, stack, memory) ==
    IF pc > Len(instructions) THEN stack
    ELSE run(instructions, pc + 1, execute(instructions[pc], stack, memory), memory)

\* The machine executes the next instruction of the accessor's code.
vm_step ==
    /\ request.status = "running"
    /\ ip \in 1..Len(program)
    /\ op_stack' = execute(program[ip], op_stack, ram)
    /\ ip' = ip + 1
    /\ UNCHANGED <<object, request, program, ram, decoded>>
    /\ UNCHANGED <<libVars, harnessVars>>

NextNav ==
    \/ \E type \in StructTypes, address \in ObjectAddresses :
          \E values \in ObjectValues(type) : encode_object(type, values, address)
    \/ \E address \in ObjectAddresses, elements \in VecValues :
          encode_object("Vec", elements, address)
    \/ \E accessor \in Accessors, field_name \in RequestedNames :
          call_accessor(accessor, field_name)
    \/ vm_step

SpecNav == InitNew /\ [][NextNav]_vars

----------------------------------------------------------------------------
(* Decoding an object from memory *)

\* MemoryIter: n calls of next() from `address` on.
next_words(memory, address, n) ==
    [i \in 1..n |-> ram_at(memory, BfeAdd(address, BFieldElement_new(i - 1)))]

\* Default::default() of a field's type.
default(static_length) ==
    IF static_length.is_some THEN [i \in 1..static_length.size |-> 0] ELSE <<>>

\* A decoder that takes the words of a field of dynamic size from the
\* length prefix on.
get_field_decoder_from_prefix(field_type, memory, address) ==
    LET length == IF field_type.is_some
                    THEN field_type.size
                    ELSE ram_at(memory, address)
        sequence == next_words(memory, address, length)
    IN  [result |-> decode(field_type, sequence),
         address |-> BfeAdd(address, BFieldElement_new(length)),
         length |-> length]

\* get_field_decoder: what the decoder of one field reads with the iterator
\* at `address`, and where it leaves the iterator.
get_field_decoder(field_type, memory, address) ==
    LET length == IF field_type.is_some
                    THEN field_type.size
                    ELSE ram_at(memory, address)
        from == IF field_type.is_some
                    THEN address ELSE BfeAdd(address, BFieldElement_new(1))
        sequence == next_words(memory, from, length)
    IN  [result |-> decode(field_type, sequence),
         address |-> BfeAdd(from, BFieldElement_new(length)),
         length |-> length]

\* field_decoders: the decoders of the pairs of field_names and field_types
\* from the k-th on, `values` being what the ones before have bound. The `?`
\* of a failing decoder returns its error at once.
RECURSIVE field_decoders(_, _, _, _, _)
field_decoders(parse_result, k, memory, address, values) ==
    IF k > Len(parse_result.field_names) \/ k > Len(parse_result.field_types)
        THEN [ok |-> TRUE, values |-> values, address |-> address]
    ELSE LET field == get_field_decoder(parse_result.field_types[k], memory, address)
         IN  IF ~field.result.ok
                THEN [ok |-> FALSE, values |-> <<>>, address |-> field.address]
                ELSE field_decoders(parse_result, k + 1, memory, field.address,
                                    Append(values, field.result.value))

\* self_builder: the struct made of the variables the decoders bound, the
\* ignored fields given their defaults.
self_builder(type, parse_result, values) ==
    LET fields == StructFields(type)
        kept == Len(parse_result.field_names)
    IN  IF StructForm(type) = "named"
            THEN [i \in 1..Len(fields) |->
                    IF field_is_ignored(fields[i])
                        THEN default(fields[i].static_length)
                        ELSE values[clause_index(parse_result, fields[i].ident)]]
            ELSE [p \in 1..Len(fields) |->
                    IF p <= kept
                        THEN values[kept + 1 - p]
                        ELSE default(fields[p].static_length)]

\* A variant of the function below that makes a struct of defaults when a
\* decoder fails.
decode_iter_defaulting(type, memory, address) ==
    LET parse_result == generate_parse_result(type)
        bound == field_decoders(parse_result, 1, memory, address, <<>>)
    IN  [status |-> "ok",
         fields |-> IF bound.ok
                      THEN self_builder(type, parse_result, bound.values)
                      ELSE [i \in 1..Len(StructFields(type)) |->
                              default(StructFields(type)[i].static_length)]]

\* The derived decode_iter.
decode_iter(type, memory, address) ==
    LET parse_result == generate_parse_result(type)
        bound == field_decoders(parse_result, 1, memory, address, <<>>)
    IN  IF bound.ok
            THEN [status |-> "ok",
                  fields |-> self_builder(type, parse_result, bound.values)]
            ELSE [status |-> "err", fields |-> <<>>]

\* Vec<T>::decode_iter: the length, then the elements one behind the other;
\* the first element its decoder rejects ends the loop with the error.
vec_decode_iter(memory, address) ==
    LET length == ram_at(memory, address)
        sequence_length == VecElement.size
        object_(i) ==
            decode(VecElement,
                   next_words(memory,
                              BfeAdd(address,
                                     BFieldElement_new(1 + (i - 1) * sequence_length)),
                              sequence_length))
    IN  IF \E i \in 1..length : ~object_(i).ok
            THEN [status |-> "err", fields |-> <<>>]
            ELSE [status |-> "ok", fields |-> [i \in 1..length |-> object_(i).value]]

\* TasmObject::decode_from_memory
decode_from_memory(type, memory, address) ==
    IF type = "Vec"
        THEN vec_decode_iter(memory, address)
        ELSE decode_iter(type, memory, address)

\* The memory as the encoder left it, and the addresses that hold another
\* word since.
Pristine ==
    encode_to_memory(EmptyRam, object.address,
                     encode_value(object.type, object.fields))
Overwritten == {a \in DOMAIN ram : a \notin DOMAIN Pristine \/ ram[a] # Pristine[a]}

OverwriteWords == {0, 1, U32_MAX + 1}

\* One word of the memory at or behind the object is overwritten.
overwrite(offset, word) ==
    /\ object.valid
    /\ decoded.status = "none"
    /\ request.status = "none"
    /\ Overwritten = {}
    /\ offset \in 0..Len(encode_value(object.type, object.fields))
    /\ ram' = [a \in DOMAIN ram \cup {BfeAdd(object.address, offset)} |->
                 IF a = BfeAdd(object.address, offset) THEN word ELSE ram[a]]
    /\ UNCHANGED <<object, request, program, ip, op_stack, decoded>>
    /\ UNCHANGED <<libVars, harnessVars>>

\* The object is decoded from the memory at its address.
decode_object ==
    /\ object.valid
    /\ decoded.status = "none"
    /\ request.status = "none"
    /\ decoded' = decode_from_memory(object.type, ram, object.address)
    /\ UNCHANGED <<object, request, program, ip, op_stack, ram>>
    /\ UNCHANGED <<libVars, harnessVars>>

DecodeAddresses == {1, MAX - 1}
OverwriteOffsets == 0..(3 * (MaxFieldLen + 1))
NextDecode ==
    \/ \E type \in StructTypes, address \in DecodeAddresses :
          \E values \in ObjectValues(type) : encode_object(type, values, address)
    \/ \E address \in DecodeAddresses, elements \in VecValues :
          encode_object("Vec", elements, address)
    \/ \E offset \in OverwriteOffsets, word \in OverwriteWords :
          overwrite(offset, word)
    \/ decode_object

SpecDecode == InitNew /\ [][NextDecode]_vars

----------------------------------------------------------------------------
(* ShadowedFunction: the test and the benchmark of a Function *)

\* BenchmarkCase, in the order ShadowedFunction::bench goes through.
BenchmarkCases == <<"CommonCase", "WorstCase">>
\* Option<BenchmarkCase>::None
NoBenchmarkCase == "None"

\* let num_rng_states = 5
num_rng_states == 5

\* Corner cases a Function lists.
MaxCornerCases == 2

\* The seeds thread_rng may yield, and the first two the generator of bench,
\* seeded with a constant, yields.
Seeds == {1, 2}
BenchSeeds == <<3, 4>>

\* Function::pseudorandom_initial_state of Map: the bench case is not looked
\* at; the list is at an address and of a length taken from the seed.
pseudorandom_initial_state(function, seed, bench_case) ==
    LET list_pointer == BFieldElement_new(seed)
        list_length == seed % 2
    IN  [stack |-> <<list_pointer>>,
         memory |-> [a \in {list_pointer} |-> list_length]]

\* Initial states a Function may list as its corner cases (Map lists none).
CornerCaseStates ==
    {[stack |-> <<list_pointer>>, memory |-> [a \in {list_pointer} |-> 0]] :
        list_pointer \in {0, MAX}}

RECURSIVE SeqsUpTo(_, _)
SeqsUpTo(set, n) ==
    IF n = 0 THEN {<<>>}
    ELSE SeqsUpTo(set, n - 1)
         \cup {Append(seq, x) : seq \in {q \in SeqsUpTo(set, n - 1) : Len(q) = n - 1},
                                x \in set}

CornerCaseLists == SeqsUpTo(CornerCaseStates, MaxCornerCases)

\* test_rust_equivalence_given_complete_state as ShadowedFunction calls it:
\* the stack and the memory it is given are where the machine and the shadow
\* both start.
test_rust_equivalence_given_complete_state(stack, memory) ==
    [call |-> "test_rust_equivalence_given_complete_state",
     stack |-> stack, ram |-> memory,
     tasm_start |-> [stack |-> stack, memory |-> memory],
     rust_start |-> [stack |-> stack, memory |-> memory]]

\* A variant of the function below that passes on the stack alone.
test_initial_state_without_memory(state, origin, seed, bench_case) ==
    test_rust_equivalence_given_complete_state(state.stack, EmptyRam)
    @@ [origin |-> origin, seed |-> seed, bench_case |-> bench_case]

\* ShadowedFunction::test_initial_state; the entry of the journal notes where
\* the state came from.
test_initial_state(state, origin, seed, bench_case) ==
    test_rust_equivalence_given_complete_state(state.stack, state.memory)
    @@ [origin |-> origin, seed |-> seed, bench_case |-> bench_case]

\* ShadowedFunction::test is called for a Function.
test_call(function, corner_cases) ==
    /\ harness.proc = "idle"
    /\ harness' = [Idle EXCEPT !.proc = "test", !.function = function,
                               !.corner_cases = corner_cases]
    /\ UNCHANGED <<journal, trial>>
    /\ UNCHANGED <<libVars, vmVars>>

\* One turn of the loop over the corner cases; a test that fails panics, and
\* test does not return.
test_corner_case(passes) ==
    /\ harness.proc = "test"
    /\ harness.i < Len(harness.corner_cases)
    /\ journal' = Append(journal,
            test_initial_state(harness.corner_cases[harness.i + 1], "corner_case",
                               0, NoBenchmarkCase))
    /\ harness' = IF passes THEN [harness EXCEPT !.i = @ + 1]
                            ELSE [harness EXCEPT !.proc = "panicked"]
    /\ UNCHANGED trial
    /\ UNCHANGED <<libVars, vmVars>>

\* One turn of the loop over the random states.
test_rng_state(seed, passes) ==
    /\ harness.proc = "test"
    /\ harness.i >= Len(harness.corner_cases)
    /\ harness.i < Len(harness.corner_cases) + num_rng_states
    /\ journal' = Append(journal,
            test_initial_state(
                pseudorandom_initial_state(harness.function, seed, NoBenchmarkCase),
                "pseudorandom", seed, NoBenchmarkCase))
    /\ harness' = IF passes THEN [harness EXCEPT !.i = @ + 1]
                            ELSE [harness EXCEPT !.proc = "panicked"]
    /\ UNCHANGED trial
    /\ UNCHANGED <<libVars, vmVars>>

test_return ==
    /\ harness.proc = "test"
    /\ harness.i = Len(harness.corner_cases) + num_rng_states
    /\ harness' = [harness EXCEPT !.proc = "tested"]
    /\ UNCHANGED <<journal, trial>>
    /\ UNCHANGED <<libVars, vmVars>>

\* ShadowedFunction::bench is called for a Function.
bench_call(function) ==
    /\ harness.proc = "idle"
    /\ harness' = [Idle EXCEPT !.proc = "bench", !.function = function]
    /\ UNCHANGED <<journal, trial>>
    /\ UNCHANGED <<libVars, vmVars>>

\* A variant of the result below: the case is left at the first.
BenchmarkResult_of_first_case(function, bench_case) ==
    [name |-> entrypoint(function), case |-> BenchmarkCases[1]]

\* BenchmarkResult { name, .., case }
BenchmarkResult(function, bench_case) ==
    [name |-> entrypoint(function), case |-> bench_case]

\* One turn of the loop over the two bench cases: the state is made, the
\* program linked and run once, and its result pushed; a run that fails
\* panics, and bench does not return.
bench_case_turn(runs) ==
    /\ harness.proc = "bench"
    /\ harness.i < Len(BenchmarkCases)
    /\ LET bench_case == BenchmarkCases[harness.i + 1]
           seed == BenchSeeds[harness.i + 1]
           state == pseudorandom_initial_state(harness.function, seed, bench_case)
       IN  /\ journal' = Append(journal,
                  [call |-> "execute_bench", stack |-> state.stack,
                   ram |-> state.memory,
                   tasm_start |-> [stack |-> state.stack, memory |-> state.memory],
                   rust_start |-> <<>>,
                   origin |-> "pseudorandom", seed |-> seed,
                   bench_case |-> bench_case])
           /\ harness' =
                IF runs
                    THEN [harness EXCEPT
                            !.i = @ + 1,
                            !.benchmarks =
                                Append(@, BenchmarkResult(harness.function, bench_case))]
                    ELSE [harness EXCEPT !.proc = "panicked"]
    /\ UNCHANGED trial
    /\ UNCHANGED <<libVars, vmVars>>

\* write_benchmarks(benchmarks)
bench_write ==
    /\ harness.proc = "bench"
    /\ harness.i = Len(BenchmarkCases)
    /\ journal' = Append(journal,
            [call |-> "write_benchmarks", stack |-> <<>>, ram |-> EmptyRam,
             tasm_start |-> <<>>, rust_start |-> <<>>,
             origin |-> "", seed |-> 0, bench_case |-> NoBenchmarkCase])
    /\ harness' = [harness EXCEPT !.proc = "benched"]
    /\ UNCHANGED trial
    /\ UNCHANGED <<libVars, vmVars>>

NextHarness ==
    \/ \E function \in MapSnippets, corner_cases \in CornerCaseLists :
          test_call(function, corner_cases)
    \/ \E passes \in BOOLEAN : test_corner_case(passes)
    \/ \E seed \in Seeds, passes \in BOOLEAN : test_rng_state(seed, passes)
    \/ test_return
    \/ \E function \in MapSnippets : bench_call(function)
    \/ \E runs \in BOOLEAN : bench_case_turn(runs)
    \/ bench_write

SpecHarness == InitNew /\ [][NextHarness]_vars

----------------------------------------------------------------------------
(* Snippets run on the machine and as their shadows *)

\* The outcome of a run: the stack it ends with, or a failure (the machine
\* stops with an error; the shadow panics).
Returns(stack) == [ok |-> TRUE, stack |-> stack]
Fails == [ok |-> FALSE, stack |-> <<>>]

\* u32 of the model: LimbBits bits.
is_u32(v) == v <= U32_MAX

\* Arithmetic of the field, and on the bits of a u32.
RECURSIVE BfeMul(_, _)
BfeMul(a, b) ==
    IF b = 0 THEN 0
    ELSE (2 * BfeMul(a, b \div 2) + (IF b % 2 = 1 THEN a ELSE 0)) % P

RECURSIVE mod_pow_u32(_, _)
mod_pow_u32(base, exp) ==
    IF exp = 0 THEN 1
    ELSE LET half == mod_pow_u32(base, exp \div 2)
         IN  BfeMul(BfeMul(half, half), IF exp % 2 = 1 THEN base ELSE 1)

RECURSIVE BitXor(_, _, _)
BitXor(a, b, bits) ==
    IF bits = 0 THEN 0
    ELSE 2 * BitXor(a \div 2, b \div 2, bits - 1) + ((a + b) % 2)

RECURSIVE BitAnd(_, _, _)
BitAnd(a, b, bits) ==
    IF bits = 0 THEN 0
    ELSE 2 * BitAnd(a \div 2, b \div 2, bits - 1) + ((a % 2) * (b % 2))

RECURSIVE log_2_floor(_)
log_2_floor(v) == IF v <= 1 THEN 0 ELSE 1 + log_2_floor(v \div 2)

\* u32s_2_decr: _ hi lo -> _ (value - 1)_hi (value - 1)_lo. One is taken from
\* the low limb; if that leaves -1, one is taken from the high limb, which
\* must not leave -1, and the low limb is set to the greatest u32.
u32s_2_decr(stack) ==
    LET hi == ST(stack, 1)
        lo == ST(stack, 0)
        lo_decr == BfeAdd(lo, MAX)
        hi_decr == BfeAdd(hi, MAX)
    IN  IF lo_decr # MAX THEN Returns(DropLast(stack, 1) \o <<lo_decr>>)
        ELSE IF hi_decr = MAX THEN Fails
        ELSE Returns(DropLast(stack, 2) \o <<hi_decr, U32_MAX>>)

\* XorU64 and AndU64: _ rhs_hi rhs_lo lhs_hi lhs_lo -> _ hi lo, by the
\* machine's xor and and, which fail on an operand that is not a u32.
xor_u64(stack) ==
    IF \E i \in 0..3 : ~is_u32(ST(stack, i)) THEN Fails
    ELSE Returns(DropLast(stack, 4)
                 \o <<BitXor(ST(stack, 3), ST(stack, 1), LimbBits),
                      BitXor(ST(stack, 2), ST(stack, 0), LimbBits)>>)

and_u64(stack) ==
    IF \E i \in 0..3 : ~is_u32(ST(stack, i)) THEN Fails
    ELSE Returns(DropLast(stack, 4)
                 \o <<BitAnd(ST(stack, 3), ST(stack, 1), LimbBits),
                      BitAnd(ST(stack, 2), ST(stack, 0), LimbBits)>>)

\* Log2FloorU64: _ hi lo -> _ log_2_floor(value); the machine's log_2_floor
\* fails on zero and on an operand that is not a u32.
log_2_floor_u64(stack) ==
    LET hi == ST(stack, 1)
        lo == ST(stack, 0)
    IN  IF ~is_u32(hi) \/ ~is_u32(lo) THEN Fails
        ELSE IF hi = 0 /\ lo = 0 THEN Fails
        ELSE Returns(DropLast(stack, 2)
                     \o <<IF hi # 0 THEN LimbBits + log_2_floor(hi)
                                    ELSE log_2_floor(lo)>>)

\* What the subroutine of a name makes of the stack.
call(label, stack) ==
    CASE label = "tasm_arithmetic_u64_decr" -> u32s_2_decr(stack)
      [] label = "tasm_arithmetic_u64_xor" -> xor_u64(stack)
      [] label = "tasm_arithmetic_u64_and" -> and_u64(stack)
      [] label = "tasm_arithmetic_u64_log_2_floor" -> log_2_floor_u64(stack)

\* What one instruction makes of the stack, the instructions that can fail
\* included: lt (_ b a -> _ (a < b)) and pow (_ e b -> _ b**e) want u32
\* operands, assert wants a one on top.
step(instruction, stack) ==
    CASE instruction.op \in {"push", "add", "pop", "swap"} ->
            Returns(execute(instruction, stack, EmptyRam))
      [] instruction.op = "label" -> Returns(stack)
      [] instruction.op = "dup" ->
            Returns(Append(stack, ST(stack, instruction.imm)))
      [] instruction.op = "lt" ->
            IF ~is_u32(ST(stack, 0)) \/ ~is_u32(ST(stack, 1)) THEN Fails
            ELSE Returns(Append(DropLast(stack, 2),
                                IF ST(stack, 0) < ST(stack, 1) THEN 1 ELSE 0))
      [] instruction.op = "assert" ->
            IF ST(stack, 0) # 1 THEN Fails ELSE Returns(DropLast(stack, 1))
      [] instruction.op = "pow" ->
            IF ~is_u32(ST(stack, 1)) THEN Fails
            ELSE Returns(Append(DropLast(stack, 2),
                                mod_pow_u32(ST(stack, 0), ST(stack, 1))))
      [] instruction.op = "mul" ->
            Returns(Append(DropLast(stack, 2), BfeMul(ST(stack, 1), ST(stack, 0))))
      [] instruction.op = "split" ->
            Returns(DropLast(stack, 1)
                    \o <<ST(stack, 0) \div (U32_MAX + 1),
                         ST(stack, 0) % (U32_MAX + 1)>>)
      [] instruction.op = "call" -> call(instruction.lbl, stack)

\* The machine runs a function body to its return.
RECURSIVE run_to_return(_, _, _)
run_to_return(instructions, pc, machine) ==
    IF ~machine.ok THEN Fails
    ELSE IF pc > Len(instructions) \/ instructions[pc].op = "return" THEN machine
    ELSE run_to_return(instructions, pc + 1, step(instructions[pc], machine.stack))

\* BFieldElement -> u32: try_into().unwrap()
try_into_u32_unwrap_panics(v) == ~is_u32(v)

TestedSnippets == {"Shiftleft", "IndexOfLastNonZeroBit"}

\* Shiftleft::function_code; the 32 of the bounds check is the width of a u32.
shiftleft_function_code ==
    <<Label("tasm_arithmetic_u32_shiftleft"),
      Push(LimbBits), Dup(1), Lt, AssertTop,
      Push(2), Pow, Mul, Split, Swap(1), Pop(1), Return>>

\* Shiftleft::rust_shadowing: _ value shift. `value << shift_amount` with a
\* shift of the width or more panics in a build with overflow checks, and
\* shifts by the amount modulo the width in one without.
shiftleft_rust_shadowing(stack) ==
    LET shift_amount == ST(stack, 0)
        value == ST(stack, 1)
        shl(by) == (value * (2 ^ by)) % (U32_MAX + 1)
    IN  IF try_into_u32_unwrap_panics(shift_amount) THEN {Fails}
        ELSE IF try_into_u32_unwrap_panics(value) THEN {Fails}
        ELSE IF shift_amount >= LimbBits
            THEN {Fails,
                  Returns(DropLast(stack, 2) \o <<shl(shift_amount % LimbBits)>>)}
        ELSE {Returns(DropLast(stack, 2) \o <<shl(shift_amount)>>)}

\* IndexOfLastNonZeroBit::function_body
index_of_last_nonzero_bit_function_body ==
    <<Label("tasm_arithmetic_u64_index_of_last_nonzero_bit"),
      Dup(1), Dup(1),
      Call("tasm_arithmetic_u64_decr"),
      Push(U32_MAX), Push(U32_MAX),
      Call("tasm_arithmetic_u64_xor"),
      Call("tasm_arithmetic_u64_and"),
      Call("tasm_arithmetic_u64_log_2_floor"),
      Return>>

\* for i in (0..64).rev() { if value & (1 << i) != 0 { ret = i; } }
RECURSIVE last_nonzero_bit_loop(_, _, _)
last_nonzero_bit_loop(value, i, ret) ==
    IF i < 0 THEN ret
    ELSE last_nonzero_bit_loop(value, i - 1,
            IF (value \div (2 ^ i)) % 2 # 0 THEN i ELSE ret)

\* IndexOfLastNonZeroBit::rust_shadowing: _ value_hi value_lo
index_of_last_nonzero_bit_rust_shadowing(stack) ==
    LET value_lo == ST(stack, 0)
        value_hi == ST(stack, 1)
        value == value_hi * (U32_MAX + 1) + value_lo
    IN  IF try_into_u32_unwrap_panics(value_lo) THEN {Fails}
        ELSE IF try_into_u32_unwrap_panics(value_hi) THEN {Fails}
        ELSE {Returns(DropLast(stack, 2)
                      \o <<last_nonzero_bit_loop(value, 2 * LimbBits - 1, 0)>>)}

function_code(snippet) ==
    IF snippet = "Shiftleft" THEN shiftleft_function_code
    ELSE index_of_last_nonzero_bit_function_body

rust_shadowing(snippet, stack) ==
    IF snippet = "Shiftleft" THEN shiftleft_rust_shadowing(stack)
    ELSE index_of_last_nonzero_bit_rust_shadowing(stack)

\* The words a test puts on the stack: u32s, and field elements that are not.
StackWords ==
    {0, 1, 2, 6, LimbBits - 1, LimbBits, LimbBits + 1, (U32_MAX + 1) \div 2,
     U32_MAX, U32_MAX + 1, U32_MAX + 3, MAX}

\* A snippet is run from a stack of two words, on the machine and as its
\* shadow.
run_snippet(snippet, below, top) ==
    /\ \E rust \in rust_shadowing(snippet, <<below, top>>) :
          trial' = [snippet |-> snippet, stack |-> <<below, top>>,
                    tasm |-> run_to_return(function_code(snippet), 1,
                                           Returns(<<below, top>>)),
                    rust |-> rust]
    /\ UNCHANGED <<harness, journal>>
    /\ UNCHANGED <<libVars, vmVars>>

NextShadow ==
    \E snippet \in TestedSnippets, below \in StackWords, top \in StackWords :
        run_snippet(snippet, below, top)

SpecShadow == InitNew /\ [][NextShadow]_vars

----------------------------------------------------------------------------
(* Claims about the Library *)

Names(seq) == {seq[i] : i \in 1..Len(seq)}

\* The snippets a generator asks for, and all it reaches through them.
DirectDeps(s) ==
    {Steps(s)[i].snip : i \in {j \in 1..Len(Steps(s)) : Steps(s)[j].kind = "import"}}
RECURSIVE ReachN(_, _)
ReachN(set, n) ==
    IF n = 0 THEN set
    ELSE ReachN(set \cup UNION {DirectDeps(s) : s \in set}, n - 1)
Reach(set) == ReachN(set, Cardinality(Snippets))
\* A generator that claims static memory is among them.
ClaimsMemory(set) ==
    \E s \in Reach(set) : \E i \in 1..Len(Steps(s)) : Steps(s)[i].kind = "kmalloc"

SameSnippets == exported.valid /\ prev.valid /\ exported.roots = prev.roots

\* C1, as stated: two sessions on new libraries in which the owner imports
\* the same set of snippets, in any order and with re-imports, export the
\* same names and the same instructions.
C1_AnyOrderSameExport ==
    SameSnippets => exported.names = prev.names /\ exported.code = prev.code

\* C1, amended: they export the same names, and the same instructions when
\* no generator they reach claims static memory (the address a generator
\* gets depends on which generators ran before it).
C1_OrderIndependentExport ==
    SameSnippets =>
        /\ exported.names = prev.names
        /\ ~ClaimsMemory(exported.roots) =>
              exported.code = prev.code /\ exported.deps = prev.deps

C1_Witness ==
    /\ SameSnippets
    /\ exported.roots = {"DummyTestSnippetA", "DummyTestSnippetB", "DummyTestSnippetC"}
    /\ Len(exported.names) = 3
    /\ last.op = "export"

RECURSIVE Offset(_, _)
Offset(names, i) ==
    IF i = 1 THEN 0 ELSE Offset(names, i - 1) + Len(seen_snippets[names[i - 1]])

\* C2: export returns one name per stored entry in ascending order, the
\* stored bodies in that order, and the instructions of those bodies laid
\* end to end in that order.
C2_ExportSortedByName ==
    exported.valid =>
        LET names == exported.names
            n == Len(names)
        IN  /\ n = Cardinality(DOMAIN seen_snippets)
            /\ Names(names) = DOMAIN seen_snippets
            /\ \A i \in 1..(n - 1) : StrLess(names[i], names[i + 1])
            /\ Len(exported.deps) = n
            /\ \A i \in 1..n : exported.deps[i] = seen_snippets[names[i]]
            /\ Len(exported.code) = Offset(names, n + 1)
            /\ \A i \in 1..n : \A j \in 1..Len(seen_snippets[names[i]]) :
                  exported.code[Offset(names, i) + j] = seen_snippets[names[i]][j]

C2_Witness ==
    /\ exported.valid
    /\ Len(exported.names) >= 4
    /\ "tasm_y_cyclic" \in Names(exported.names)

ImportOf(s) == last'.op = "import" /\ last'.snip = s

\* C3: importing a snippet whose entrypoint is already in the library returns
\* the entrypoint, runs no generator and leaves the map and the free pointer
\* as they were; an import that returns leaves its entrypoint in the map.
C3_ImportIdempotent ==
    [][\A s \in Snippets : ImportOf(s) =>
          /\ entrypoint(s) \in DOMAIN seen_snippets =>
                /\ last'.returned /\ last'.rname = entrypoint(s)
                /\ last'.deepest = 0
                /\ gen_calls' = gen_calls
                /\ seen_snippets' = seen_snippets
                /\ free_pointer' = free_pointer
                /\ regions' = regions
          /\ last'.returned =>
                /\ last'.rname = entrypoint(s)
                /\ entrypoint(s) \in DOMAIN seen_snippets'
                /\ \A t \in Snippets : gen_calls'[t] <= 1]_vars

C3_Witness ==
    /\ last.op = "import" /\ last.snip = "DummyTestSnippetA"
    /\ last.returned /\ last.deepest = 0
    /\ gen_calls["DummyTestSnippetA"] = 1

\* C4: an import of a snippet with an acyclic dependency graph that returns
\* leaves in the map the entrypoints of the snippet and of every snippet its
\* generator reached, and adds nothing else; importing A (which imports B,
\* which imports C) and then C leaves exactly the entries of A, B and C.
C4_ImportClosure ==
    [][\A s \in AcyclicSnippets : (ImportOf(s) /\ last'.returned) =>
          /\ entrypoint(s) \in DOMAIN seen_snippets'
          /\ DOMAIN seen_snippets' =
                DOMAIN seen_snippets \cup {entrypoint(t) : t \in Reach({s})}
          /\ \A name \in DOMAIN seen_snippets :
                seen_snippets'[name] = seen_snippets[name]
          /\ (s = "DummyTestSnippetA" /\ seen_snippets = EmptyMap) =>
                DOMAIN seen_snippets' = {"tasm_a_dummy_test_value",
                    "tasm_b_dummy_test_value", "tasm_c_dummy_test_value"}
          /\ (s = "DummyTestSnippetC" /\ gen_calls["DummyTestSnippetA"] = 1
                /\ DOMAIN seen_snippets = {"tasm_a_dummy_test_value",
                    "tasm_b_dummy_test_value", "tasm_c_dummy_test_value"}) =>
                seen_snippets' = seen_snippets]_vars

C4_Witness ==
    /\ last.op = "import" /\ last.snip = "DummyTestSnippetC" /\ last.returned
    /\ gen_calls = [s \in Snippets |->
          IF s \in {"DummyTestSnippetA", "DummyTestSnippetB", "DummyTestSnippetC"}
            THEN 1 ELSE 0]
    /\ DOMAIN seen_snippets = {"tasm_a_dummy_test_value",
          "tasm_b_dummy_test_value", "tasm_c_dummy_test_value"}
    /\ seen_snippets["tasm_c_dummy_test_value"] =
          Code("DummyTestSnippetC", <<>>, <<>>)
    /\ seen_snippets["tasm_a_dummy_test_value"] =
          Code("DummyTestSnippetA",
               <<"tasm_b_dummy_test_value", "tasm_c_dummy_test_value">>, <<>>)

NeitherSeen == {entrypoint(s) : s \in CyclicSnippets} \cap DOMAIN seen_snippets = {}

KmallocOf(n) == last'.op = "kmalloc" /\ last'.n = n

\* C6, as stated: kmalloc moves the free pointer down by num_words and
\* returns the first address of the region [free_pointer, free_pointer +
\* num_words), free_pointer being the pointer after the call.
C6_RegionStartsAtNewPointer ==
    [][\A n \in AllocSizes \ {0} : KmallocOf(n) =>
          /\ free_pointer' = BfeSub(free_pointer, n)
          /\ last'.raddr = free_pointer']_vars

\* C6, amended: for num_words >= 1, kmalloc returns, moves the free pointer
\* down by num_words and returns the lowest address of the region, which is
\* one above the new free pointer: the region is [free_pointer' + 1,
\* free_pointer' + 1 + num_words) and ends with the old free pointer.
C6_RegionStartsAboveNewPointer ==
    [][\A n \in AllocSizes \ {0} : KmallocOf(n) =>
          /\ last'.returned
          /\ free_pointer' = BfeSub(free_pointer, n)
          /\ last'.raddr = BfeAdd(free_pointer', 1)
          /\ BfeAdd(last'.raddr, n - 1) = free_pointer
          /\ regions' = Append(regions,
                [address |-> last'.raddr, n |-> n, by |-> "owner"])]_vars

C6_Witness ==
    /\ last.op = "kmalloc" /\ last.n = 7 /\ last.returned
    /\ Len(regions) >= 2
    /\ last.raddr = BfeAdd(free_pointer, 1)

RECURSIVE SumWords(_, _)
SumWords(rs, k) == IF k = 0 THEN 0 ELSE SumWords(rs, k - 1) + rs[k].n

AllAtLeastOneWord == \A i \in 1..Len(regions) : regions[i].n >= 1
Words(region) == {region.address + d : d \in 0..(region.n - 1)}

\* C7: when every call of kmalloc in a session (the owner's and the
\* generators') asked for at least one word, the regions are pairwise
\* disjoint, each lies below all regions claimed before it, and the free
\* pointer is below the pointer the session started with by the sum of the
\* words asked for (below the start address, in a library made by new).
C7_RegionsDisjointAndDescending ==
    (AllAtLeastOneWord /\ SumWords(regions, Len(regions)) + preallocated < P) =>
        /\ \A i, j \in 1..Len(regions) : i < j =>
              /\ Words(regions[i]) \cap Words(regions[j]) = {}
              /\ regions[j].address + regions[j].n <= regions[i].address
        /\ \A i \in 1..Len(regions) :
              /\ regions[i].address + regions[i].n - 1 <= MAX - preallocated
              /\ regions[i].address > free_pointer
        /\ free_pointer = STATIC_MEMORY_START_ADDRESS - preallocated
                            - SumWords(regions, Len(regions))

C7_Witness ==
    /\ AllAtLeastOneWord
    /\ Len(regions) = 4
    /\ preallocated = 0
    /\ \E i, j \in 1..4 : regions[i].by = "owner" /\ regions[j].by = "StaticB"

Sizes(rs) == [i \in 1..Len(rs) |-> rs[i].n]
Addresses(rs) == [i \in 1..Len(rs) |-> rs[i].address]

\* C8: in a library made by new, when every call asked for at least one
\* word, the k-th call of kmalloc returned MAX - (n1 + ... + nk) + 1 modulo
\* P; kmalloc(1), kmalloc(7), kmalloc(1000) return MAX, MAX - 7, MAX - 1007.
C8_KthAddress ==
    /\ (preallocated = 0 /\ AllAtLeastOneWord) =>
          /\ \A k \in 1..Len(regions) :
                regions[k].address = (MAX + P - (SumWords(regions, k) % P) + 1) % P
          /\ (last.op = "kmalloc" /\ last.returned) =>
                last.raddr = (MAX + P - (SumWords(regions, Len(regions)) % P) + 1) % P
    /\ (preallocated = 0 /\ Sizes(regions) = <<1, 7, 1000>>) =>
          Addresses(regions) = <<MAX, MAX - 7, MAX - 1007>>

C8_Witness ==
    /\ preallocated = 0
    /\ Sizes(regions) = <<1, 7, 1000>>
    /\ \A i \in 1..3 : regions[i].by = "owner"
    /\ last.op = "kmalloc" /\ last.raddr = MAX - 1007

ExplicitImportOf(name) == last'.op = "explicit_import" /\ last'.name = name

\* C9: explicit_import of a name the library does not hold stores the given
\* body under the name and returns the name; it runs no generator and leaves
\* every other entry and the free pointer as they were.
C9_ExplicitImportStoresBody ==
    [][\A name \in RawNames : (ExplicitImportOf(name) /\ name \notin DOMAIN seen_snippets) =>
          /\ last'.returned /\ last'.rname = name
          /\ DOMAIN seen_snippets' = DOMAIN seen_snippets \cup {name}
          /\ seen_snippets'[name] = last'.body
          /\ \A other \in DOMAIN seen_snippets :
                seen_snippets'[other] = seen_snippets[other]
          /\ gen_calls' = gen_calls
          /\ free_pointer' = free_pointer
          /\ regions' = regions]_vars

C9_Witness ==
    /\ last.op = "explicit_import" /\ last.name = "tasm_y_cyclic"
    /\ last.body = <<Push(1), Return>>
    /\ seen_snippets["tasm_y_cyclic"] = <<Push(1), Return>>
    /\ "tasm_a_dummy_test_value" \in DOMAIN seen_snippets
    /\ free_pointer = BfeSub(with_preallocated_memory(preallocated), 1000)

----------------------------------------------------------------------------
(* Claims about the accessors of TasmObject *)

Halted == request.status = "running" /\ ip = Len(program) + 1

\* The declared field a name stands for: by identifier in a struct with
\* named fields, field_n for the n-th field of a tuple struct; 0 for none.
DeclaredIndex(type, field_name) ==
    LET fields == StructFields(type)
        named == {i \in 1..Len(fields) :
                    /\ StructForm(type) = "named" /\ fields[i].ident = field_name}
        numbered == {i \in 1..Len(fields) :
                    /\ StructForm(type) = "unnamed" /\ format_ident(i - 1) = field_name}
    IN  IF named \cup numbered = {} THEN 0 ELSE CHOOSE i \in named \cup numbered : TRUE

NoFieldIgnored(type) ==
    \A i \in 1..Len(StructFields(type)) : ~StructFields(type)[i].ignore

RECURSIVE WordsBehind(_, _, _)
\* The words the encoding holds in front of field i: those of the fields
\* declared after it that are not ignored.
WordsBehind(fields, values, i) ==
    IF i >= Len(fields) THEN 0
    ELSE WordsBehind(fields, values, i + 1)
         + (IF fields[i + 1].ignore THEN 0
            ELSE Len(encode_field(fields[i + 1], values[i + 1])))

FieldStart(obj, i) ==
    BfeAdd(obj.address, WordsBehind(StructFields(obj.type), obj.fields, i))

\* The machine has run get_field_start_with_jump_distance for a field of
\* dynamic size, of a struct with named fields or a tuple struct without
\* ignored fields.
DynamicFieldRequested(accessor) ==
    /\ Halted
    /\ request.accessor = accessor
    /\ StructForm(object.type) = "named" \/ NoFieldIgnored(object.type)
    /\ LET i == DeclaredIndex(object.type, request.field_name)
       IN  /\ i # 0
           /\ ~StructFields(object.type)[i].ignore
           /\ ~StructFields(object.type)[i].static_length.is_some

RequestedIndex == DeclaredIndex(object.type, request.field_name)

\* C10, as stated: for a field of dynamic size the code of
\* get_field_start_with_jump_distance leaves the address of the field's
\* length prefix and, above it, the length stored there plus two; for
\* [a: dynamic, b: static 1] the start of a is the object pointer + 1 and
\* the jump distance len(a) + 2.
C10_JumpIsLengthPlusTwo ==
    /\ DynamicFieldRequested("get_field_start_with_jump_distance") =>
          /\ Len(op_stack) = Len(StackBelow) + 2
          /\ ST(op_stack, 1) = FieldStart(object, RequestedIndex)
          /\ ram_at(ram, ST(op_stack, 1)) = Len(object.fields[RequestedIndex])
          /\ ST(op_stack, 0) = BfeAdd(ram_at(ram, ST(op_stack, 1)), 2)
    /\ (/\ DynamicFieldRequested("get_field_start_with_jump_distance")
        /\ object.type = "NamedPair") =>
          /\ ST(op_stack, 1) = BfeAdd(object.address, 1)
          /\ ST(op_stack, 0) = Len(object.fields[1]) + 2

\* C10, amended: for a field of dynamic size (of a struct with named fields,
\* or of a tuple struct none of whose fields is ignored) the code of
\* get_field_start_with_jump_distance leaves the stack below untouched and on
\* it the address of the field's length prefix and the length stored there
\* plus one, the distance to the start of the next field; get_field leaves
\* that address plus one. Whatever the struct, a jumper made for a type of
\* dynamic size leaves the word read at the start address plus one. For
\* [a: dynamic, b: static 1] the start of a is the object pointer + 1 and the
\* jump distance len(a) + 1.
C10_JumpIsLengthPlusOne ==
    /\ DynamicFieldRequested("get_field_start_with_jump_distance") =>
          /\ op_stack = StackBelow \o
                <<FieldStart(object, RequestedIndex),
                  BfeAdd(Len(object.fields[RequestedIndex]), 1)>>
          /\ ram_at(ram, ST(op_stack, 1)) = Len(object.fields[RequestedIndex])
          /\ ST(op_stack, 0) = BfeAdd(ram_at(ram, ST(op_stack, 1)), 1)
    /\ DynamicFieldRequested("get_field") =>
          op_stack = StackBelow \o <<BfeAdd(FieldStart(object, RequestedIndex), 1)>>
    /\ (/\ Halted
        /\ request.accessor = "get_field_start_with_jump_distance"
        /\ LET parse_result == generate_parse_result(object.type)
           IN  ~parse_result.field_types[
                    clause_index(parse_result, request.field_name)].is_some) =>
          /\ Len(op_stack) = Len(StackBelow) + 2
          /\ ST(op_stack, 0) = BfeAdd(ram_at(ram, ST(op_stack, 1)), 1)
    /\ (/\ DynamicFieldRequested("get_field_start_with_jump_distance")
        /\ object.type = "NamedPair") =>
          /\ ST(op_stack, 1) = BfeAdd(object.address, 1)
          /\ ST(op_stack, 0) = Len(object.fields[1]) + 1

C10_Witness ==
    /\ DynamicFieldRequested("get_field_start_with_jump_distance")
    /\ object.type = "NamedPair"
    /\ request.field_name = "a"
    /\ Len(object.fields[1]) = 2
    /\ object.address = 300
    /\ op_stack = StackBelow \o <<301, 3>>
    /\ ram_at(ram, 300) = 201 /\ ram_at(ram, 301) = 2

\* The declared fields that are not ignored, the last declared first.
KeptReversed(type) ==
    SelectSeq(Reverse([i \in 1..Len(StructFields(type)) |-> i]),
              LAMBDA i : field_is_kept(StructFields(type)[i]))

\* The declared field whose place in memory the accessors take the requested
\* name for: the one the arm of the match was made for; 0 for none.
Resolved ==
    LET k == clause_index(generate_parse_result(object.type), request.field_name)
    IN  IF k = 0 THEN 0 ELSE KeptReversed(object.type)[k]

ResolvedField == StructFields(object.type)[Resolved]

Ran(accessor) == Halted /\ request.accessor = accessor

\* The stack an accessor's code leaves when run on the object.
StackAfter(code) == run(code, 1, StackBelow \o <<object.address>>, ram)

RequestedClause ==
    clause_index(generate_parse_result(object.type), request.field_name)

\* C11: for a field of static size the code of
\* get_field_start_with_jump_distance leaves the address of the field's data
\* (the address get_field leaves) and above it the static length of the
\* field's type; the jump distance is pushed as a constant, no instruction
\* of the jumper reads memory.
C11_StaticJumpIsStaticSize ==
    (Ran("get_field_start_with_jump_distance")
        /\ ResolvedField.static_length.is_some) =>
            /\ op_stack = StackBelow \o
                  <<FieldStart(object, Resolved), ResolvedField.static_length.size>>
            /\ ST(StackAfter(get_field(generate_parse_result(object.type),
                                       request.field_name)), 0) = ST(op_stack, 1)
            /\ program[Len(program)] = Push(ResolvedField.static_length.size)
            /\ RequestedClause = 1 =>
                  program = <<Push(ResolvedField.static_length.size)>>

C11_Witness ==
    /\ Ran("get_field_start_with_jump_distance")
    /\ object.type = "NamedFields" /\ request.field_name = "a"
    /\ Len(object.fields[2]) = 1 /\ Len(object.fields[3]) = 2
    /\ object.address = 300
    /\ op_stack = StackBelow \o <<305, 2>>
    /\ ram_at(ram, 305) = 101 /\ ram_at(ram, 306) = 102

\* C12: the start of the last declared field that is not ignored is the
\* object pointer, and the start of every other field is the start of the
\* field declared after it (ignored fields passed over) plus the jump
\* distance of that field; so a field starts behind the encodings of the
\* fields declared after it.
C12_FieldStartsChain ==
    Ran("get_field_start_with_jump_distance") =>
        LET parse_result == generate_parse_result(object.type)
            k == RequestedClause
            kept == {i \in 1..Len(StructFields(object.type)) :
                        field_is_kept(StructFields(object.type)[i])}
        IN  /\ k = 1 =>
                  /\ ST(op_stack, 1) = object.address
                  /\ \A i \in kept : i <= Resolved
            /\ k > 1 =>
                  LET after == StackAfter(get_field_start_with_jump_distance(
                                   parse_result, parse_result.field_names[k - 1]))
                      declared_after == KeptReversed(object.type)[k - 1]
                  IN  /\ ST(op_stack, 1) = BfeAdd(ST(after, 1), ST(after, 0))
                      /\ declared_after > Resolved
                      /\ \A i \in kept : i > Resolved => i >= declared_after
            /\ ST(op_stack, 1) = FieldStart(object, Resolved)
            /\ DropLast(op_stack, 2) = StackBelow

C12_Witness ==
    /\ Ran("get_field_start_with_jump_distance")
    /\ object.type = "NamedIgnoring" /\ request.field_name = "a"
    /\ object.address = MAX - 1
    /\ Len(object.fields[1]) = 2
    /\ op_stack = StackBelow \o <<0, 3>>

\* C13: the code of get_field turns a stack that ends with the object
\* pointer into one of the same height that ends with the address of the
\* field's data: the start of the field if its size is static, the start
\* plus one if it is dynamic.
C13_GetFieldLeavesDataPointer ==
    Ran("get_field") =>
        LET start == ST(StackAfter(get_field_start_with_jump_distance(
                        generate_parse_result(object.type), request.field_name)), 1)
        IN  /\ start = FieldStart(object, Resolved)
            /\ op_stack = StackBelow \o
                  <<IF ResolvedField.static_length.is_some
                      THEN start ELSE BfeAdd(start, 1)>>

C13_Witness ==
    /\ Ran("get_field")
    /\ object.type = "TupleStruct" /\ request.field_name = "field_0"
    /\ object.address = 1
    /\ Len(object.fields[3]) = 1
    /\ op_stack = StackBelow \o <<5>>

\* C14: the code of get_field_with_size leaves the address get_field leaves
\* and above it the size of the field: the static length of its type, or for
\* a field of dynamic size the length stored one word below the address.
C14_GetFieldWithSize ==
    Ran("get_field_with_size") =>
        /\ Len(op_stack) = Len(StackBelow) + 2
        /\ DropLast(op_stack, 2) = StackBelow
        /\ ST(op_stack, 1) = ST(StackAfter(get_field(
                generate_parse_result(object.type), request.field_name)), 0)
        /\ ResolvedField.static_length.is_some =>
              ST(op_stack, 0) = ResolvedField.static_length.size
        /\ ~ResolvedField.static_length.is_some =>
              /\ ST(op_stack, 0) = ram_at(ram, BfeSub(ST(op_stack, 1), 1))
              /\ ST(op_stack, 0) = Len(object.fields[Resolved])

C14_Witness ==
    /\ Ran("get_field_with_size")
    /\ object.type = "NamedFields" /\ request.field_name = "b"
    /\ Len(object.fields[2]) = 2 /\ Len(object.fields[3]) = 0
    /\ object.address = 300
    /\ op_stack = StackBelow \o <<302, 2>>
    /\ ram_at(ram, 301) = 2

\* The struct's names stand for the fields they are declared for: it has
\* named fields, or none of its fields is ignored.
NamesAsDeclared(type) == StructForm(type) = "named" \/ NoFieldIgnored(type)

TupleFieldRequested ==
    /\ request.status # "none"
    /\ StructForm(object.type) = "unnamed"
    /\ RequestedIndex # 0
    /\ field_is_kept(StructFields(object.type)[RequestedIndex])

\* What the accessors are to leave for the declared field i of the object.
FieldAnswer(accessor, i) ==
    LET static_length == StructFields(object.type)[i].static_length
        start == FieldStart(object, i)
        data == IF static_length.is_some THEN start ELSE BfeAdd(start, 1)
        size == IF static_length.is_some
                    THEN static_length.size ELSE Len(object.fields[i])
        jump == IF static_length.is_some THEN size ELSE size + 1
    IN  CASE accessor = "get_field" -> <<data>>
          [] accessor = "get_field_with_size" -> <<data, size>>
          [] accessor = "get_field_start_with_jump_distance" -> <<start, jump>>

FieldNOfTuple(types) ==
    (TupleFieldRequested /\ object.type \in types) =>
        /\ request.status # "panicked"
        /\ Resolved = RequestedIndex
        /\ Halted =>
              op_stack = StackBelow \o FieldAnswer(request.accessor, RequestedIndex)

\* C18: in a tuple struct, with or without ignored fields, the name field_n
\* stands for the n-th declared field, counted from 0: each of get_field,
\* get_field_with_size and get_field_start_with_jump_distance answers the
\* name, with the place in memory and the static or dynamic size of that
\* field.
C18_FieldNIsNthDeclared == FieldNOfTuple(StructTypes)

\* The same for the tuple structs none of whose fields is ignored.
FieldNWithoutIgnored == FieldNOfTuple({type \in StructTypes : NoFieldIgnored(type)})

\* get_field was run for field_1 of a tuple struct whose third field is
\* ignored: it left the address of the first field's word.
C18_Witness ==
    /\ Ran("get_field")
    /\ object.type = "TupleIgnoringLast" /\ request.field_name = "field_1"
    /\ object.address = 1
    /\ ram_at(ram, 1) = object.fields[2][1]
    /\ ram_at(ram, 2) = object.fields[1][1]
    /\ op_stack = StackBelow \o <<2>>

\* The name asked for is not the name of a field of the object's type.
UnknownFieldRequested ==
    /\ request.status # "none"
    /\ \/ object.type = "Vec"
       \/ DeclaredIndex(object.type, request.field_name) = 0

\* C19: each of get_field, get_field_with_size and
\* get_field_start_with_jump_distance, asked for a name that is not the name
\* of a field of the struct, panics and returns no code, so that nothing is
\* run; the accessors of Vec panic for every name.
C19_UnknownFieldNamePanics ==
    /\ UnknownFieldRequested =>
          /\ request.status = "panicked"
          /\ program = <<>>
          /\ op_stack = <<>>
    /\ request.status = "panicked" => program = <<>> /\ ip = 0

\* get_field_with_size was asked for field d of a struct with the fields a,
\* b and c, and panicked.
C19_Witness ==
    /\ UnknownFieldRequested
    /\ object.type = "NamedFields"
    /\ request.accessor = "get_field_with_size"
    /\ request.field_name = "d"
    /\ request.status = "panicked"
    /\ program = <<>>

\* get_field of Vec was asked for a name, and panicked.
VecFieldRequested ==
    /\ object.type = "Vec"
    /\ Len(object.fields) = MaxFieldLen
    /\ request.accessor = "get_field"
    /\ request.status = "panicked"

----------------------------------------------------------------------------
(* Claims about decoding *)

Decoded == decoded.status # "none"

\* C16: an object of a struct without ignored fields, with named or with
\* unnamed fields, of static and of dynamic size, that was encoded to memory
\* at an address and is decoded from the memory as the encoder left it, at
\* the same address, is decoded successfully, to the fields it was encoded
\* from.
C16_EncodeDecodeRoundTrip ==
    (/\ Decoded
     /\ object.type \in StructTypes
     /\ NoFieldIgnored(object.type)
     /\ Overwritten = {})
        => /\ decoded.status = "ok"
           /\ decoded.fields = object.fields

\* A tuple struct of a dynamic, a static and a dynamic field, encoded across
\* the end of the address space, has been decoded.
C16_Witness ==
    /\ Decoded
    /\ Overwritten = {}
    /\ object.type = "TupleStruct"
    /\ object.address = MAX - 1
    /\ Len(object.fields[1]) = MaxFieldLen
    /\ Len(object.fields[3]) = 1
    /\ decoded.fields = object.fields

\* The fields of an object with the ignored ones replaced by the defaults of
\* their types.
IgnoredDefaulted(type, fields) ==
    [i \in 1..Len(fields) |->
        IF StructFields(type)[i].ignore
            THEN default(StructFields(type)[i].static_length)
            ELSE fields[i]]

IgnoringDecoded ==
    /\ Decoded
    /\ object.type \in StructTypes
    /\ ~NoFieldIgnored(object.type)
    /\ Overwritten = {}

\* C17: an object of a struct with an ignored field, whatever the value of
\* that field and wherever it is declared, in a struct with named or with
\* unnamed fields, is decoded successfully from the memory it was encoded to;
\* the ignored field of the decoded object holds the default of its type and
\* every other field, at its declared position, the value it was encoded
\* from.
C17_IgnoredFieldDefaulted ==
    IgnoringDecoded =>
        /\ decoded.status = "ok"
        /\ decoded.fields = IgnoredDefaulted(object.type, object.fields)

\* The same for the structs with named fields and for the tuple structs whose
\* ignored fields are declared last.
NamedOrIgnoredLast ==
    (IgnoringDecoded /\ object.type \in {"NamedIgnoring", "TupleIgnoringLast"}) =>
        /\ decoded.status = "ok"
        /\ decoded.fields = IgnoredDefaulted(object.type, object.fields)

\* A tuple struct whose second field is ignored has been decoded: the value
\* of the third field is at the second position and the default at the
\* third.
C17_Witness ==
    /\ IgnoringDecoded
    /\ object.type = "TupleIgnoring"
    /\ object.fields = <<FieldWords(1, 1), FieldWords(2, 1), FieldWords(3, 2)>>
    /\ decoded.status = "ok"
    /\ decoded.fields = <<FieldWords(1, 1), FieldWords(3, 2), <<>> >>

\* The addresses of the words of the value of the object's field i, the
\* length in front of a value of dynamic size apart; for a Vec, of its
\* elements.
DataAddresses(i) ==
    LET static_length == StructFields(object.type)[i].static_length
        data == IF static_length.is_some
                    THEN FieldStart(object, i)
                    ELSE BfeAdd(FieldStart(object, i), 1)
    IN  {BfeAdd(data, j - 1) : j \in 1..Len(object.fields[i])}

ElementAddresses == {BfeAdd(object.address, j) : j \in 1..Len(object.fields)}

\* The words the decoder of a field, or of an element, is given hold one
\* that it does not decode.
FieldDecoderFails ==
    \/ /\ object.type \in StructTypes
       /\ \E i \in 1..Len(object.fields) :
             /\ field_is_kept(StructFields(object.type)[i])
             /\ \E a \in DataAddresses(i) : ram_at(ram, a) > U32_MAX
    \/ /\ object.type = "Vec"
       /\ \E a \in ElementAddresses : ram_at(ram, a) > U32_MAX

\* C20: when the decoder of a field's type, or of an element's, rejects the
\* words taken from memory for it, decode_from_memory returns the error: it
\* returns no object, and none with a default in the place of the field.
C20_FieldDecoderErrorIsReturned ==
    (Decoded /\ FieldDecoderFails) =>
        /\ decoded.status = "err"
        /\ decoded.fields = <<>>

\* The word of the static field of a tuple struct was overwritten with one
\* its type does not decode, and decode_from_memory returned the error.
C20_Witness ==
    /\ Decoded
    /\ FieldDecoderFails
    /\ object.type = "TupleStruct"
    /\ object.address = 1
    /\ Len(object.fields[3]) = 2
    /\ ram_at(ram, 4) = U32_MAX + 1
    /\ decoded.status = "err"

\* An element of a Vec was overwritten with a word its type does not decode,
\* and decode_from_memory returned the error.
VecElementRejected ==
    /\ Decoded
    /\ FieldDecoderFails
    /\ object.type = "Vec"
    /\ decoded.status = "err"

----------------------------------------------------------------------------
(* Claims about ShadowedFunction *)

TestCalls ==
    {k \in 1..Len(journal) :
        journal[k].call = "test_rust_equivalence_given_complete_state"}

InTest ==
    \/ harness.proc \in {"test", "tested"}
    \/ harness.proc = "panicked" /\ TestCalls = 1..Len(journal)

InBench ==
    \/ harness.proc \in {"bench", "benched"}
    \/ harness.proc = "panicked" /\ TestCalls = {}

\* The state the k-th equivalence check of a test is to be made from.
TestedState(k) ==
    IF k <= Len(harness.corner_cases)
        THEN harness.corner_cases[k]
        ELSE pseudorandom_initial_state(harness.function, journal[k].seed,
                                        NoBenchmarkCase)

\* C22: ShadowedFunction::test checks the equivalence once for each corner
\* case, in the order of the list, and then for num_rng_states pseudorandom
\* states, each made from a seed of its own and with no bench case; in every
\* check the machine and the shadow start from the same stack and memory, the
\* ones of the state.
C22_TestOrder ==
    InTest =>
        /\ TestCalls = 1..Len(journal)
        /\ Len(journal) <= Len(harness.corner_cases) + num_rng_states
        /\ harness.proc = "test" => Len(journal) = harness.i
        /\ harness.proc = "tested" =>
                Len(journal) = Len(harness.corner_cases) + num_rng_states
        /\ \A k \in 1..Len(journal) :
            /\ journal[k].origin =
                    IF k <= Len(harness.corner_cases) THEN "corner_case"
                                                      ELSE "pseudorandom"
            /\ journal[k].bench_case = NoBenchmarkCase
            /\ k > Len(harness.corner_cases) => journal[k].seed \in Seeds
            /\ journal[k].tasm_start = journal[k].rust_start
            /\ journal[k].tasm_start = TestedState(k)

C22_Witness ==
    /\ harness.proc = "tested"
    /\ Len(harness.corner_cases) = MaxCornerCases
    /\ harness.corner_cases[1] # harness.corner_cases[2]
    /\ Len(journal) = MaxCornerCases + num_rng_states
    /\ journal[MaxCornerCases + 1].seed # journal[MaxCornerCases + 2].seed

\* C23: ShadowedFunction::bench makes one state for CommonCase and then one
\* for WorstCase, runs the machine once for each, keeps one result for each
\* under the entrypoint and the case, writes them, and never calls the shadow
\* or the equivalence check.
C23_BenchOnePerCase ==
    InBench =>
        /\ TestCalls = {}
        /\ harness.proc = "bench" => Len(journal) = harness.i
        /\ Len(harness.benchmarks) = harness.i
        /\ harness.i <= Len(BenchmarkCases)
        /\ \A k \in 1..Len(harness.benchmarks) :
                /\ harness.benchmarks[k].name = entrypoint(harness.function)
                /\ harness.benchmarks[k].case = BenchmarkCases[k]
        /\ \A k \in 1..Len(journal) :
            IF k <= Len(BenchmarkCases)
                THEN /\ journal[k].call = "execute_bench"
                     /\ journal[k].bench_case = BenchmarkCases[k]
                     /\ journal[k].tasm_start =
                            pseudorandom_initial_state(harness.function,
                                BenchSeeds[k], BenchmarkCases[k])
                ELSE /\ journal[k].call = "write_benchmarks"
                     /\ k = Len(BenchmarkCases) + 1
                     /\ harness.proc = "benched"
        /\ harness.proc = "benched" =>
                /\ Len(journal) = Len(BenchmarkCases) + 1
                /\ Len(harness.benchmarks) = Len(BenchmarkCases)

C23_Witness ==
    /\ harness.proc = "benched"
    /\ Len(harness.benchmarks) = 2
    /\ harness.benchmarks[1].case = "CommonCase"
    /\ harness.benchmarks[2].case = "WorstCase"
    /\ journal[3].call = "write_benchmarks"

----------------------------------------------------------------------------
(* Claims about sessions over lists *)

RECURSIVE SumOver(_, _)
SumOver(f, set) ==
    IF set = {} THEN 0
    ELSE LET x == CHOOSE y \in set : TRUE
         IN  f[x] + SumOver(f, set \ {x})

\* The snippets that go by a name, and the times their generators have run.
Named(name) == {s \in Snippets : entrypoint(s) = name}
GeneratorRuns(name) == SumOver(gen_calls, Named(name))

\* The snippets whose generator another generator calls directly, and the
\* callers.
CalledDirectly ==
    {s \in Snippets : \E c \in Snippets : \E k \in 1..Len(Steps(c)) :
        Steps(c)[k] = GenerateStep(s)}
DirectCallers(s) ==
    {c \in Snippets : \E k \in 1..Len(Steps(c)) : Steps(c)[k] = GenerateStep(s)}

EntrypointNames == {entrypoint(s) : s \in Snippets}
ClaimedBy(s) == {i \in 1..Len(regions) : regions[i].by = s}

\* C24 as stated: in a session without cycles the generators of the snippets
\* that go by one entrypoint name run at most once between them, however the
\* snippet is imported, and the static memory a snippet claims is claimed once.
C24_GeneratorOncePerName ==
    /\ \A name \in EntrypointNames : GeneratorRuns(name) <= 1
    /\ \A s \in Snippets : Cardinality(ClaimedBy(s)) <= Len(Steps(s))

\* C24: in a session without cycles, import runs the generators of the
\* snippets that go by one entrypoint name at most once between them, and the
\* static memory such a snippet claims is claimed once; a generator that
\* another generator calls directly (Map calls its inner function's) runs
\* once for each run of the caller, and at most once more through import.
C24_GeneratorOncePerImportedName ==
    /\ \A name \in EntrypointNames :
        Named(name) \cap CalledDirectly = {} => GeneratorRuns(name) <= 1
    /\ \A s \in CalledDirectly :
        /\ gen_calls[s] >= SumOver(gen_calls, DirectCallers(s))
        /\ gen_calls[s] <= SumOver(gen_calls, DirectCallers(s)) + 1
    /\ \A s \in Snippets : Cardinality(ClaimedBy(s)) <= Len(Steps(s))

C24_Witness ==
    /\ status = "running"
    /\ gen_calls["Map(Safe)"] = 1 /\ gen_calls["Map(Unsafe)"] = 1
    /\ gen_calls["TestHashXFieldElement"] = 2
    /\ gen_calls["SafeAdd"] = 1
    /\ gen_calls["SafeSetLength"] = 1
    /\ gen_calls["Get<1>"] + gen_calls["Get<2>"] = 1
    /\ {"Get<1>", "Get<2>"} \subseteq roots
    /\ Cardinality(ClaimedBy("StaticA")) = 1

\* C25: across import, explicit_import, kmalloc and export an entry the map
\* holds is neither removed nor replaced; explicit_import of a name the map
\* holds keeps the body held; and an import of a name the map holds, be it
\* through explicit_import, runs no generator.
C25_EntriesArePermanent ==
    [][/\ \A name \in DOMAIN seen_snippets :
            /\ name \in DOMAIN seen_snippets'
            /\ seen_snippets'[name] = seen_snippets[name]
       /\ \A s \in Snippets :
            (ImportOf(s) /\ entrypoint(s) \in DOMAIN seen_snippets) =>
                gen_calls' = gen_calls]_vars

\* Raw code was stored under the name of a snippet, and the snippet was
\* imported.
C25_Witness ==
    /\ last.op = "import" /\ last.snip = "DummyTestSnippetC"
    /\ gen_calls["DummyTestSnippetC"] = 0
    /\ seen_snippets["tasm_c_dummy_test_value"] = <<Push(1), Return>>
    /\ "tasm_a_dummy_test_value" \in DOMAIN seen_snippets
    /\ Len(regions) > 0

\* Raw code was handed in under a name the map held with another body.
ExplicitImportOfKnownName ==
    /\ last.op = "explicit_import"
    /\ last.name \in DOMAIN seen_snippets
    /\ seen_snippets[last.name] # last.body

\* Map has stored its inner function's body, and the inner function was
\* imported.
ImportAfterMap ==
    /\ last.op = "import" /\ last.snip = "TestHashXFieldElement"
    /\ gen_calls["Map(Safe)"] = 1
    /\ gen_calls["TestHashXFieldElement"] = 1

\* The Gets the owner has imported.
ImportedGets == roots \cap GetSnippets

\* C28: two snippets that go by one entrypoint name generate one body, so
\* the body the library holds is the body of every snippet imported under the
\* name; Get<N> for different N do not go by one name.
C28_SameNameSameBody ==
    status = "running" =>
        /\ \A s \in ImportedGets : seen_snippets[entrypoint(s)] = GetCode(s)
        /\ \A s, t \in ImportedGets :
              GetN(s) # GetN(t) => entrypoint(s) # entrypoint(t)

\* Get<1> and then Get<2> were imported: the one entry is the body of Get<1>.
C28_Witness ==
    /\ status = "running"
    /\ ImportedGets = {"Get<1>", "Get<2>"}
    /\ gen_calls["Get<1>"] = 1 /\ gen_calls["Get<2>"] = 0
    /\ seen_snippets["list_get_element"] = GetCode("Get<1>")
    /\ seen_snippets["list_get_element"] # GetCode("Get<2>")

----------------------------------------------------------------------------
(* Claims about decoding, continued *)

\* Where the iterator is when the k-th decoder of a struct starts, the
\* decoders before it having run on the memory.
RECURSIVE DecoderStart(_, _)
DecoderStart(parse_result, k) ==
    IF k = 1 THEN object.address
    ELSE get_field_decoder(parse_result.field_types[k - 1], ram,
                           DecoderStart(parse_result, k - 1)).address

PrefixOverwrittenDecoded ==
    /\ decoded.status = "ok"
    /\ object.type = "NamedPair"
    /\ Overwritten = {BfeAdd(object.address, 1)}
    /\ Len(object.fields[1]) # ram_at(ram, BfeAdd(object.address, 1))

----------------------------------------------------------------------------
(* Claims about static memory, continued *)

\* C27: kmalloc(0) returns, and leaves the free pointer and every region
\* claimed before as they were.
C27_KmallocZeroReturns ==
    [][KmallocOf(0) =>
          /\ last'.returned
          /\ status' = "running"
          /\ free_pointer' = free_pointer
          /\ Len(regions') >= Len(regions)
          /\ SubSeq(regions', 1, Len(regions)) = regions]_vars

\* kmalloc(0) was called after a region had been claimed, and panicked.
C27_Witness ==
    /\ last.op = "kmalloc" /\ last.n = 0
    /\ ~last.returned
    /\ status = "panicked"
    /\ Len(regions) >= 1

\* kmalloc(0) returned: the build wraps on overflow.
KmallocZeroReturned ==
    /\ last.op = "kmalloc" /\ last.n = 0
    /\ last.returned
    /\ Len(regions) >= 2
    /\ last.raddr = BfeSub(free_pointer, BFieldElement_new(U64_MAX))

----------------------------------------------------------------------------
(* Claims about snippets and their shadows *)

ShiftleftRun == trial.snippet = "Shiftleft"
ShiftleftValue == trial.stack[1]
ShiftleftShift == trial.stack[2]

\* C29: the left shift of a u32 fails in each of its declared crash
\* conditions, on the machine and as its shadow: the value or the shift is
\* not a u32, or the shift is greater than the width less one.
C29_ShiftleftCrashConditions ==
    (/\ ShiftleftRun
     /\ \/ ~is_u32(ShiftleftValue)
        \/ ~is_u32(ShiftleftShift)
        \/ ShiftleftShift > LimbBits - 1)
        => /\ ~trial.tasm.ok
           /\ ~trial.rust.ok

\* The value is no u32 and the shift is zero: the machine returns the low
\* limb of the value, the shadow panics.
C29_Witness ==
    /\ ShiftleftRun
    /\ ShiftleftValue = U32_MAX + 3 /\ ShiftleftShift = 0
    /\ trial.tasm = Returns(<<2>>)
    /\ ~trial.rust.ok

\* The machine does fail when the shift is out of range or no u32, and the
\* two agree on u32 values and shifts in range.
ShiftleftShiftChecked ==
    ShiftleftRun =>
        /\ (~is_u32(ShiftleftShift) \/ ShiftleftShift > LimbBits - 1)
                => ~trial.tasm.ok
        /\ (is_u32(ShiftleftValue) /\ ShiftleftShift < LimbBits)
                => trial.tasm.ok /\ trial.tasm = trial.rust

\* The shift is the width, and the shadow returned: a build without overflow
\* checks.
ShiftleftShadowWraps ==
    /\ ShiftleftRun
    /\ ShiftleftValue = 6 /\ ShiftleftShift = LimbBits + 1
    /\ ~trial.tasm.ok
    /\ trial.rust = Returns(<<12>>)

IndexRun == trial.snippet = "IndexOfLastNonZeroBit"
IndexHi == trial.stack[1]
IndexLo == trial.stack[2]

\* The index of the least significant bit of v that is set, v not zero.
RECURSIVE TrailingZeros(_)
TrailingZeros(v) == IF v % 2 = 1 THEN 0 ELSE 1 + TrailingZeros(v \div 2)

\* C30: on a u64 given as two u32 limbs, the code and the shadow of
\* index_of_last_nonzero_bit agree: for a value that is not zero both return
\* the index of its least significant set bit, and for zero both fail.
C30_IndexOfLastNonZeroBitAgree ==
    (IndexRun /\ is_u32(IndexHi) /\ is_u32(IndexLo)) =>
        LET value == IndexHi * (U32_MAX + 1) + IndexLo
        IN  IF value # 0
                THEN /\ trial.tasm = Returns(<<TrailingZeros(value)>>)
                     /\ trial.rust = Returns(<<TrailingZeros(value)>>)
                ELSE /\ ~trial.tasm.ok
                     /\ ~trial.rust.ok

\* Zero: the machine fails, the shadow returns 0.
C30_Witness ==
    /\ IndexRun
    /\ IndexHi = 0 /\ IndexLo = 0
    /\ ~trial.tasm.ok
    /\ trial.rust = Returns(<<0>>)

\* The two agree on every input but zero: on a value that is not zero both
\* return the index, on a limb that is no u32 both fail.
IndexAgreesButForZero ==
    (IndexRun /\ ~(IndexHi = 0 /\ IndexLo = 0)) =>
        /\ trial.tasm = trial.rust
        /\ trial.tasm.ok <=> (is_u32(IndexHi) /\ is_u32(IndexLo))
        /\ trial.tasm.ok =>
            trial.tasm.stack =
                <<TrailingZeros(IndexHi * (U32_MAX + 1) + IndexLo)>>

\* The bit found is in the high limb.
IndexInHighLimb ==
    /\ IndexRun
    /\ IndexHi = 6 /\ IndexLo = 0
    /\ trial.tasm = Returns(<<LimbBits + 1>>)

====
